---- MODULE Spec2Model ----
(***************************************************************************)
(* External-process invocation and background-job lifecycle of the Codex   *)
(* and Gemini MCP cores (src/src/mcp/codex-core.ts, gemini-core.ts).       *)
(*                                                                         *)
(* Node.js runs every callback to completion, so each action below is one  *)
(* whole callback (or one whole synchronous call), including the promise   *)
(* continuation that a settling callback schedules as a microtask.         *)
(*                                                                         *)
(* Text is modelled as a sequence of symbols.  "sp" and "nl" are a blank   *)
(* and a line feed, "o" and "k" are ordinary characters, and each symbol   *)
(* of JsonLines stands for the text of one complete JSON value.            *)
(***************************************************************************)
EXTENDS Integers, Sequences, FiniteSets, TLC

\* ------------------------------------------------------------------ bounds
MaxOut == 1          \* characters a child writes to one of its streams
MaxJobs == 2         \* job ids the prompt store can hand out
MaxText == 4         \* characters of a text handed to parseCodexOutput
Near == 2            \* configured timeouts lie within Near of 0 and of each limit

\* --------------------------------------------------------------- constants
MAX_CONTEXT_FILES == 20

Providers == {"codex", "gemini"}

CODEX_VALID_ROLES ==
    {"architect", "planner", "critic", "analyst", "code-reviewer",
     "security-reviewer", "tdd-guide"}

GEMINI_VALID_ROLES == {"designer", "writer", "vision"}

CODEX_DEFAULT_MODEL == "gpt-5.2"

GEMINI_DEFAULT_MODEL == "gemini-3-pro-preview"

GEMINI_MODEL_FALLBACKS ==
    <<"gemini-3-pro-preview", "gemini-3-flash-preview",
      "gemini-2.5-pro", "gemini-2.5-flash">>

\* The two numbers in the expression of CODEX_TIMEOUT / GEMINI_TIMEOUT.
MIN_TIMEOUT == 5000

MAX_TIMEOUT == 3600000

\* TIMEOUT before the module has been evaluated.
NotLoaded == 0

\* A value of the environment variable: not set, the empty string, a text
\* that does not start with a number, or the decimal text of the integer n.
EnvUnset == [kind |-> "unset", n |-> 0]

EnvEmpty == [kind |-> "empty", n |-> 0]

EnvWord == [kind |-> "word", n |-> 0]

EnvInt(n) == [kind |-> "int", n |-> n]

ConfiguredTimeouts ==
    ((0 - Near)..Near) \cup ((MIN_TIMEOUT - Near)..(MIN_TIMEOUT + Near))
        \cup ((MAX_TIMEOUT - Near)..(MAX_TIMEOUT + Near))

EnvValues == {EnvUnset, EnvEmpty, EnvWord} \cup {EnvInt(n) : n \in ConfiguredTimeouts}

\* process.env.OMC_CODEX_TIMEOUT || '3600000'
OrDefaultText(e) ==
    IF e.kind \in {"unset", "empty"} THEN EnvInt(MAX_TIMEOUT) ELSE e

\* parseInt(text, 10)
parseInt(e) ==
    IF e.kind = "int" THEN [nan |-> FALSE, n |-> e.n] ELSE [nan |-> TRUE, n |-> 0]

\* x || 3600000: NaN and 0 are falsy
OrDefault(x) == IF x.nan \/ x.n = 0 THEN MAX_TIMEOUT ELSE x.n

Max(a, b) == IF a >= b THEN a ELSE b

Min(a, b) == IF a <= b THEN a ELSE b

\* Math.min(Math.max(5000, parseInt(env || '3600000', 10) || 3600000), 3600000)
EffectiveTimeout(e) ==
    Min(Max(MIN_TIMEOUT, OrDefault(parseInt(OrDefaultText(e)))), MAX_TIMEOUT)

\* ------------------------------------------------------------------- text
Whitespace == {"sp", "nl"}

\* {"type":"output_text","text":"ok"}      {"type":"message","content":"k"}
\* {"type":"message","content":[{"type":"text","text":"o"},{"type":"image"}]}
\* {"type":"output_text","text":""}        null
\* {"type":"message","content":[{"type":"text","text":"o"},null,{"type":"text","text":"k"}]}
JsonLines ==
    {"J_output_ok", "J_message_k", "J_parts_o", "J_output_empty", "J_null",
     "J_parts_o_null_k"}

NoOutput == <<"No output">>

RECURSIVE TrimStart(_)
TrimStart(s) ==
    IF s # <<>> /\ Head(s) \in Whitespace THEN TrimStart(Tail(s)) ELSE s

RECURSIVE TrimEnd(_)
TrimEnd(s) ==
    IF s # <<>> /\ s[Len(s)] \in Whitespace
    THEN TrimEnd(SubSeq(s, 1, Len(s) - 1)) ELSE s

\* String.prototype.trim
Trim(s) == TrimEnd(TrimStart(s))

\* String.prototype.split('\n')
RECURSIVE Split(_)
Split(s) ==
    IF \E i \in 1..Len(s) : s[i] = "nl"
    THEN LET i == CHOOSE i \in 1..Len(s) :
                      s[i] = "nl" /\ \A j \in 1..(i - 1) : s[j] # "nl"
         IN <<SubSeq(s, 1, i - 1)>> \o Split(SubSeq(s, i + 1, Len(s)))
    ELSE <<s>>

\* Array.prototype.join('\n')
RECURSIVE Join(_)
Join(ss) ==
    IF ss = <<>> THEN <<>>
    ELSE IF Len(ss) = 1 THEN ss[1]
    ELSE ss[1] \o <<"nl">> \o Join(Tail(ss))

\* The text segments the body of the try block pushes for one line; a line
\* on which JSON.parse throws, or whose value makes event.type throw (null),
\* pushes nothing.  A part that is null makes part.type throw inside the
\* loop over the parts: what was pushed before it stays, the rest of the
\* record is skipped by the catch.
LineMessages(line) ==
    LET t == Trim(line)
    IN IF Len(t) # 1 THEN <<>>
       ELSE CASE t[1] = "J_output_ok"       -> << <<"o", "k">> >>
              [] t[1] = "J_message_k"       -> << <<"k">> >>
              [] t[1] = "J_parts_o"         -> << <<"o">> >>
              [] t[1] = "J_parts_o_null_k"  -> << <<"o">> >>
              [] OTHER                      -> <<>>

RECURSIVE CollectMessages(_)
CollectMessages(lines) ==
    IF lines = <<>> THEN <<>>
    ELSE (IF Trim(Head(lines)) # <<>> THEN LineMessages(Head(lines)) ELSE <<>>)
         \o CollectMessages(Tail(lines))

\* Mutant: the fallback returns the trimmed text.
parseCodexOutput_Trimmed(output) ==
    LET messages == CollectMessages(Split(Trim(output)))
    IN IF Join(messages) # <<>> THEN Join(messages) ELSE Trim(output)

parseCodexOutput(output) ==
    LET messages == CollectMessages(Split(Trim(output)))
    IN IF Join(messages) # <<>> THEN Join(messages) ELSE output

\* The characters of a text handed to parseCodexOutput, and the texts.
Chars == {"sp", "nl", "o"} \cup JsonLines

Texts == UNION {[1..n -> Chars] : n \in 0..MaxText}

\* ------------------------------------------------------------------ state
VARIABLES
    pc,            \* handleAsk*: "idle", "await" (suspended on an executor) or "done"
    req,           \* the arguments of the request, with its provider
    trace,         \* calls made so far, in order: [op, arg, job]
    fullPrompt,    \* the prompt buildPromptWithSystemContext returned
    promptResult,  \* what persistPrompt returned: [ok, id, slug]
    modelsToTry,   \* the chain the synchronous branch walks
    errors,        \* errors[] of the fallback loop: [model, message]
    result,        \* what the handler returned
    execs,         \* one closure per executeCodex / executeGemini call
    jobs,          \* job id -> closure of executeCodexBackground / executeGeminiBackground
    store,         \* job id -> the status record last written
    statusLog,     \* job id -> every status record written for it, in order
    responses,     \* response records persisted by persistResponse
    rawOutput,     \* parseCodexOutput: the text it is called with
    decoded,       \* parseCodexOutput: <<>> until it returns, then <<its result>>
    env,           \* process.env.OMC_CODEX_TIMEOUT / OMC_GEMINI_TIMEOUT
    TIMEOUT,       \* CODEX_TIMEOUT / GEMINI_TIMEOUT, NotLoaded before the module is evaluated
    platform,      \* process.platform
    responseStoreFails, \* whether the response store fails to write a record
    routeCall,     \* the function of the router that was called, "none" before
    context,       \* the RoutingContext of the call
    signals,       \* the ComplexitySignals of the call
    mergedConfig,  \* the configuration of the call, defaults included
    rules,         \* the rule list given to evaluateRules
    evaluated,     \* what evaluateRules returned
    decision       \* what routeTask / routeWithEscalation returned

vars == <<pc, req, trace, fullPrompt, promptResult, modelsToTry, errors, result,
          execs, jobs, store, statusLog, responses, rawOutput, decoded, env, TIMEOUT,
          platform, responseStoreFails,
          routeCall, context, signals, mergedConfig, rules, evaluated, decision>>

\* The call of the model router and what it returned.
routing == <<routeCall, context, signals, mergedConfig, rules, evaluated, decision>>

\* What the decoder, the module constants and the model router hold; the
\* request handlers and the process callbacks do not assign them.
config == <<rawOutput, decoded, env, TIMEOUT, platform, responseStoreFails, routing>>

handlerVars ==
    <<pc, req, trace, fullPrompt, promptResult, modelsToTry, errors, result,
      execs, jobs, store, statusLog, responses>>

JobIds == 1..MaxJobs

Undefined == "<undefined>"

Terminal == {"completed", "failed", "timeout"}

\* Exit codes a close event reports; NoExit while the child has not exited.
NoExit == -1

ExitCodes == {0, 1}

OutChunks == {"nl", "o", "J_output_ok"}

ErrChunks == {"k"}

\* What the children of concurrent jobs write to stdout.
JobOutChunks == {"o"}

NoMessage == [kind |-> "none", code |-> 0, text |-> <<>>]

Pending == [state |-> "pending", text |-> <<>>, message |-> NoMessage]

Resolved(text) == [state |-> "resolved", text |-> text, message |-> NoMessage]

Rejected(message) == [state |-> "rejected", text |-> <<>>, message |-> message]

TimeoutMessage == [kind |-> "timeout", code |-> 0, text |-> <<>>]

ExitMessage(code, stderr) ==
    [kind |-> "exit", code |-> code,
     text |-> IF stderr # <<>> THEN stderr ELSE NoOutput]

SpawnMessage == [kind |-> "spawn", code |-> 0, text |-> <<"ENOENT">>]

StdinMessage == [kind |-> "stdin", code |-> 0, text |-> <<"EPIPE">>]

\* Mutant: only exit code 0 counts as success.
CloseSucceeds_ZeroOnly(code, stdout) == code = 0

\* The test of the close handlers: code === 0 || stdout.trim()
CloseSucceeds(code, stdout) == code = 0 \/ Trim(stdout) # <<>>

\* What a successful close hands on: parseCodexOutput(stdout) / stdout.trim()
Decode(provider, stdout) ==
    IF provider = "codex" THEN parseCodexOutput(stdout) ELSE Trim(stdout)

CloseOutcome(provider, code, stdout, stderr) ==
    IF CloseSucceeds(code, stdout)
    THEN Resolved(Decode(provider, stdout))
    ELSE Rejected(ExitMessage(code, stderr))

\* ----------------------------------------------------- request and effects
Roles == {"architect", "designer", "bogus", "", Undefined}

RequestedModels == {Undefined, "gemini-2.5-pro", "gemini-2.5-flash", "custom-model"}

FileCounts == {0, 1, MAX_CONTEXT_FILES + 1}

\* The lengths of context_files / files around the cap.
AllFileCounts ==
    {0, 1, MAX_CONTEXT_FILES - 1, MAX_CONTEXT_FILES,
     MAX_CONTEXT_FILES + 1, MAX_CONTEXT_FILES + 2}

\* Every combination of arguments: nFiles paths, all of them readable or
\* all of them not.
AllRequests ==
    [provider : Providers, agent_role : Roles, model : RequestedModels,
     nFiles : AllFileCounts, filesReadable : BOOLEAN, background : BOOLEAN]

\* The requests that are followed through their child processes: a model
\* outside the canonical list is sent to Gemini in background mode only,
\* a single file is sent to Codex with the default model only, and a file
\* that cannot be read is sent alone.
Requests ==
    {r \in [provider : Providers, agent_role : Roles, model : RequestedModels,
            nFiles : FileCounts, filesReadable : BOOLEAN, background : BOOLEAN] :
        /\ r.provider = "gemini" /\ r.model = "custom-model" => r.background
        /\ r.nFiles = 1 => r.provider = "codex" /\ r.model = Undefined
        /\ ~r.filesReadable => r.nFiles = 1}

NoRequest ==
    [provider |-> "codex", agent_role |-> Undefined, model |-> Undefined,
     nFiles |-> 0, filesReadable |-> TRUE, background |-> FALSE]

\* Mutant: one role list shared by both providers.
ValidRoles_AnyProvider(provider) == CODEX_VALID_ROLES \cup GEMINI_VALID_ROLES

ValidRoles(provider) ==
    IF provider = "codex" THEN CODEX_VALID_ROLES ELSE GEMINI_VALID_ROLES

DefaultModel(provider) ==
    IF provider = "codex" THEN CODEX_DEFAULT_MODEL ELSE GEMINI_DEFAULT_MODEL

\* const { model = DEFAULT_MODEL } = args
ModelOf(args) ==
    IF args.model = Undefined THEN DefaultModel(args.provider) ELSE args.model

\* !agent_role || !VALID_ROLES.includes(agent_role)
InvalidRole(args) ==
    \/ args.agent_role \in {Undefined, ""}
    \/ args.agent_role \notin ValidRoles(args.provider)

\* Array.prototype.indexOf, 0-based, -1 when absent
IndexOf(list, x) ==
    IF \E i \in 1..Len(list) : list[i] = x
    THEN (CHOOSE i \in 1..Len(list) :
             list[i] = x /\ \A j \in 1..(i - 1) : list[j] # x) - 1
    ELSE -1

\* Mutant: the slice starts one element late.
Slice_After(list, start) == SubSeq(list, start + 2, Len(list))

\* Array.prototype.slice(start), start >= 0
Slice(list, start) == SubSeq(list, start + 1, Len(list))

\* Mutant: the requested model is put in front of the whole list whether
\* or not the list has it.
FallbackChain_Prepend(requestedModel) ==
    <<requestedModel>> \o GEMINI_MODEL_FALLBACKS

FallbackChain(requestedModel) ==
    LET fallbackIndex == IndexOf(GEMINI_MODEL_FALLBACKS, requestedModel)
    IN IF fallbackIndex >= 0
       THEN Slice(GEMINI_MODEL_FALLBACKS, fallbackIndex)
       ELSE <<requestedModel>> \o GEMINI_MODEL_FALLBACKS

Call(op, arg, job) == [op |-> op, arg |-> arg, job |-> job]

RECURSIVE Repeat(_, _)
Repeat(x, n) == IF n = 0 THEN <<>> ELSE <<x>> \o Repeat(x, n - 1)

\* A result: text is the text of the content after the parameter block,
\* without the fallback note, which is kept apart in note.
NoResult ==
    [isError |-> FALSE, kind |-> "none", text |-> <<>>, errors |-> <<>>, note |-> <<>>]

\* Mutant: the isError member is left out of every result.
Result_Unflagged(isError, kind, text, errs) ==
    [isError |-> FALSE, kind |-> kind, text |-> text, errors |-> errs, note |-> <<>>]

Result(isError, kind, text, errs) ==
    [isError |-> isError, kind |-> kind, text |-> text, errors |-> errs, note |-> <<>>]

NoPrompt == [ok |-> FALSE, id |-> 0, slug |-> Undefined, filePath |-> Undefined]

\* The prompt handed to the child: system prompt of the role, then the
\* texts of the context files, then the prompt of the caller.
buildPromptWithSystemContext(prompt, fileContext, resolvedSystemPrompt) ==
    [system |-> resolvedSystemPrompt, files |-> fileContext, user |-> prompt]

NoFullPrompt == buildPromptWithSystemContext("", <<>>, Undefined)

\* The human slug persistPrompt returns next to the id.
SlugOf(id) == <<"slug", id>>

\* The path of the prompt file persistPrompt returns with them.
PromptFileOf(id) == <<"prompt file", id>>

\* getExpectedResponsePath: the file the response of the prompt will be in.
ResponseFileOf(provider, slug, id) == <<"response file", provider, slug, id>>

\* child.pid of the process spawned for job id.
PidOf(id) == <<"pid", id>>

\* new Date().toISOString()
Now == "new Date().toISOString()"

\* The id persistPrompt generates: the first one not handed out yet.
FreshId == Cardinality({c \in 1..Len(trace) : trace[c].op = "persistPrompt"}) + 1

\* initialStatus of the supervisor, for the job of prompt record p.  A
\* member the literal leaves out is Undefined (completedAt) or NoMessage
\* (error).
InitialStatus(provider, model, p, role) ==
    [provider |-> provider, jobId |-> p.id, slug |-> p.slug, status |-> "spawned",
     pid |-> PidOf(p.id), promptFile |-> p.filePath,
     responseFile |-> ResponseFileOf(provider, p.slug, p.id),
     model |-> model, agentRole |-> role, spawnedAt |-> Now,
     completedAt |-> Undefined, error |-> NoMessage]

\* { ...initialStatus, status: 'running' }
RunningStatus(initialStatus) == [initialStatus EXCEPT !.status = "running"]

\* { ...initialStatus, status: 'completed', completedAt }
CompletedStatus(initialStatus) ==
    [initialStatus EXCEPT !.status = "completed", !.completedAt = Now]

\* Mutant: a failure record names the response file as its prompt file.
FailureStatus_WrongFile(initialStatus, status, message) ==
    [initialStatus EXCEPT !.status = status, !.completedAt = Now, !.error = message,
                          !.promptFile = initialStatus.responseFile]

\* { ...initialStatus, status, completedAt, error }
FailureStatus(initialStatus, status, message) ==
    [initialStatus EXCEPT !.status = status, !.completedAt = Now, !.error = message]

NoStatus == [InitialStatus("codex", Undefined, NoPrompt, Undefined) EXCEPT !.status = "none"]

\* Mutant: the record names the model that was asked for, not the one that
\* answered.
ResponseRecord_RequestedModel(provider, role, model, id, slug, response, requested) ==
    [provider |-> provider, agentRole |-> role, model |-> requested,
     promptId |-> id, slug |-> slug, response |-> response,
     usedFallback |-> provider = "gemini" /\ model # requested,
     fallbackModel |-> IF provider = "gemini" /\ model # requested
                       THEN model ELSE Undefined]

\* usedFallback ? `[Fallback: used ${tryModel} instead of ${requestedModel}]` : ''
\* (Gemini only: the Codex handler has no such note.)
FallbackNote(provider, tryModel, requestedModel) ==
    IF provider = "gemini" /\ tryModel # requestedModel
    THEN <<"Fallback: used", tryModel, "instead of", requestedModel>>
    ELSE <<>>

ResponseRecord(provider, role, model, id, slug, response, requested) ==
    [provider |-> provider, agentRole |-> role, model |-> model,
     promptId |-> id, slug |-> slug, response |-> response,
     usedFallback |-> provider = "gemini" /\ model # requested,
     fallbackModel |-> IF provider = "gemini" /\ model # requested
                       THEN model ELSE Undefined]

\* The Job Status Store keeps one record per job id, overwritten in place.
writeJobStatus(s, j, record) == [s EXCEPT ![j] = record]

\* The response store keeps every record it is given; a write that fails
\* is logged by the store and leaves it as it was.
persistResponse(rs, record) ==
    IF responseStoreFails THEN rs ELSE Append(rs, record)

\* ------------------------------------------------------ executor closures
NewExec(provider, model, prompt) ==
    [provider |-> provider, model |-> model, prompt |-> prompt, settled |-> FALSE,
     timer |-> "armed", closed |-> FALSE, exitCode |-> NoExit,
     stdout |-> <<>>, stderr |-> <<>>,
     kills |-> 0, settles |-> 0, outcome |-> Pending]

\* No signal was sent.
NoSignal == [fn |-> "none", target |-> "none", threw |-> FALSE]

\* process.kill(-pid, 'SIGTERM') / child.kill('SIGTERM'), a call that threw or not
Signal(fn, target, threw) == [fn |-> fn, target |-> target, threw |-> threw]

NoJob ==
    [active |-> FALSE, provider |-> "codex", model |-> Undefined,
     jobId |-> 0, slug |-> Undefined, agentRole |-> Undefined,
     initialStatus |-> NoStatus,
     settled |-> FALSE, timer |-> "none", closed |-> FALSE, exitCode |-> NoExit,
     stdout |-> <<>>, stderr |-> <<>>, kills |-> 0, signal |-> NoSignal]

\* The closure of one supervisor call, after its synchronous body.
NewJob(initialStatus) ==
    [active |-> TRUE, provider |-> initialStatus.provider, model |-> initialStatus.model,
     jobId |-> initialStatus.jobId, slug |-> initialStatus.slug,
     agentRole |-> initialStatus.agentRole, initialStatus |-> initialStatus,
     settled |-> FALSE, timer |-> "armed", closed |-> FALSE, exitCode |-> NoExit,
     stdout |-> <<>>, stderr |-> <<>>, kills |-> 0, signal |-> NoSignal]

\* validateAndReadFile returns a text on every path: the contents of the
\* file under a header, or the header with the reason it was not read.
validateAndReadFile(readable) ==
    IF readable THEN "--- File --- contents" ELSE "--- File --- (Error reading file)"

\* ------------------------------------------------------------ model routing
Tiers == {"LOW", "MEDIUM", "HIGH"}

\* `x ?? d`, for a number that is absent (<<>>) or present (<<n>>)
Coalesce(x, d) == IF x = <<>> THEN d ELSE x[1]

\* The test JavaScript makes of a string that may be undefined or empty.
Truthy(x) == x \notin {Undefined, ""}

\* One entry of a rule list; its condition is RuleCondition, by name.
Rule(name, tier, reason, priority) ==
    [name |-> name, action |-> [tier |-> tier, reason |-> reason], priority |-> priority]

DEFAULT_ROUTING_RULES ==
    <<Rule("explicit-model-specified", "EXPLICIT",
           "User specified model explicitly", 100),
      Rule("previous-failure-escalation", "HIGH",
           "Escalating due to previous failure", 90),
      Rule("advisor-agents-oracle", "HIGH",
           "Oracle requires deep reasoning for architecture/debugging", 80),
      Rule("advisor-agents-prometheus", "HIGH",
           "Prometheus requires strategic planning capabilities", 80),
      Rule("advisor-agents-momus", "HIGH",
           "Momus requires critical evaluation capabilities", 80),
      Rule("advisor-agents-metis", "HIGH",
           "Metis requires pre-planning analysis capabilities", 80),
      Rule("exploration-agent", "LOW",
           "Exploration is search-focused, optimized for speed", 80),
      Rule("document-writer-agent", "LOW",
           "Documentation is straightforward, optimized for speed", 80),
      Rule("architecture-system-wide", "HIGH",
           "Architectural decisions with system-wide impact", 70),
      Rule("security-domain", "HIGH",
           "Security-related tasks require careful reasoning", 70),
      Rule("difficult-reversibility-risk", "HIGH",
           "High-risk, difficult-to-reverse changes", 70),
      Rule("deep-debugging", "HIGH",
           "Root cause analysis requires deep reasoning", 65),
      Rule("complex-multi-step", "HIGH",
           "Complex multi-step task with cross-file changes", 60),
      Rule("simple-search-query", "LOW",
           "Simple search or lookup task", 60),
      Rule("short-local-change", "LOW",
           "Short, local, easily reversible change", 55),
      Rule("moderate-complexity", "MEDIUM",
           "Moderate complexity with multiple subtasks", 50),
      Rule("module-level-work", "MEDIUM",
           "Module-level changes", 45),
      Rule("default-medium", "MEDIUM",
           "Default tier for unclassified tasks", 0)>>

\* rule.condition(context, signals) of the rule of that name
RuleCondition(rule, ctx, sig) ==
    CASE rule.name = "explicit-model-specified" -> ctx.explicitModel # Undefined
      [] rule.name = "previous-failure-escalation" ->
            Coalesce(ctx.previousFailures, 0) > 0
      [] rule.name = "advisor-agents-oracle" -> ctx.agentType = "oracle"
      [] rule.name = "advisor-agents-prometheus" -> ctx.agentType = "prometheus"
      [] rule.name = "advisor-agents-momus" -> ctx.agentType = "momus"
      [] rule.name = "advisor-agents-metis" -> ctx.agentType = "metis"
      [] rule.name = "exploration-agent" -> ctx.agentType = "explore"
      [] rule.name = "document-writer-agent" -> ctx.agentType = "document-writer"
      [] rule.name = "architecture-system-wide" ->
            /\ sig.lexical.hasArchitectureKeywords
            /\ sig.structural.impactScope = "system-wide"
      [] rule.name = "security-domain" ->
            sig.structural.domainSpecificity = "security"
      [] rule.name = "difficult-reversibility-risk" ->
            /\ sig.structural.reversibility = "difficult"
            /\ sig.lexical.hasRiskKeywords
      [] rule.name = "deep-debugging" ->
            /\ sig.lexical.hasDebuggingKeywords
            /\ sig.lexical.questionDepth = "why"
      [] rule.name = "complex-multi-step" ->
            /\ sig.structural.estimatedSubtasks > 5
            /\ sig.structural.crossFileDependencies
      [] rule.name = "simple-search-query" ->
            /\ sig.lexical.hasSimpleKeywords
            /\ sig.structural.estimatedSubtasks <= 1
            /\ sig.structural.impactScope = "local"
            /\ ~sig.lexical.hasArchitectureKeywords
            /\ ~sig.lexical.hasDebuggingKeywords
      [] rule.name = "short-local-change" ->
            /\ sig.lexical.wordCount < 50
            /\ sig.structural.impactScope = "local"
            /\ sig.structural.reversibility = "easy"
            /\ ~sig.lexical.hasRiskKeywords
      [] rule.name = "moderate-complexity" ->
            /\ sig.structural.estimatedSubtasks > 1
            /\ sig.structural.estimatedSubtasks <= 5
      [] rule.name = "module-level-work" -> sig.structural.impactScope = "module"
      [] rule.name = "default-medium" -> TRUE
      [] OTHER -> FALSE

\* One step of the sort: r goes behind every rule whose priority is not
\* lower than its own, so rules of equal priority keep their order.
InsertByPriority(sorted, r) ==
    LET k == Cardinality({i \in 1..Len(sorted) : sorted[i].priority >= r.priority})
    IN SubSeq(sorted, 1, k) \o <<r>> \o SubSeq(sorted, k + 1, Len(sorted))

\* [...rules].sort((a, b) => b.priority - a.priority): a stable sort of a
\* copy, highest priority first
RECURSIVE SortByPriority(_)
SortByPriority(list) ==
    IF list = <<>> THEN <<>>
    ELSE InsertByPriority(SortByPriority(SubSeq(list, 1, Len(list) - 1)),
                          list[Len(list)])

NoRuleResult == [tier |-> "none", reason |-> "", ruleName |-> ""]

\* Mutant: the list is walked as it was given, without the sort.
evaluateRules_Unsorted(ctx, sig, list) ==
    LET matching == {i \in 1..Len(list) : RuleCondition(list[i], ctx, sig)}
    IN IF matching # {}
       THEN LET rule == list[CHOOSE i \in matching : \A k \in matching : i <= k]
            IN [tier |-> rule.action.tier, reason |-> rule.action.reason,
                ruleName |-> rule.name]
       ELSE [tier |-> "MEDIUM", reason |-> "Fallback to medium tier",
             ruleName |-> "fallback"]

evaluateRules(ctx, sig, list) ==
    LET sortedRules == SortByPriority(list)
        matching == {i \in 1..Len(sortedRules) :
                        RuleCondition(sortedRules[i], ctx, sig)}
    IN IF matching # {}
       THEN LET rule == sortedRules[CHOOSE i \in matching : \A k \in matching : i <= k]
            IN [tier |-> rule.action.tier, reason |-> rule.action.reason,
                ruleName |-> rule.name]
       ELSE [tier |-> "MEDIUM", reason |-> "Fallback to medium tier",
             ruleName |-> "fallback"]

\* The list that was passed, after the call: the sort is made on a copy.
RulesAfterEvaluate(list) == list

\* One entry of reasons: a text and what is put into it.
Reason(text, from, to, n) == [text |-> text, from |-> from, to |-> to, n |-> n]

\* table[tier], for the tier tables that map a tier to a model
Lookup(table, key) == [table |-> table, key |-> key]

NoDecision ==
    [model |-> Lookup("", ""), modelType |-> Lookup("", ""), tier |-> "none",
     confidence |-> "", reasons |-> <<>>, escalated |-> FALSE,
     originalTier |-> Undefined]

createDecision(tier, reasons, escalated, originalTier) ==
    [model |-> Lookup("TIER_MODELS", tier),
     modelType |-> Lookup("TIER_TO_MODEL_TYPE", tier),
     tier |-> tier,
     confidence |-> IF escalated THEN "0.9" ELSE "0.7",
     reasons |-> reasons,
     escalated |-> escalated,
     originalTier |-> originalTier]

modelTypeToTier(modelType) ==
    CASE modelType = "opus" -> "HIGH"
      [] modelType = "haiku" -> "LOW"
      [] OTHER -> "MEDIUM"

\* mergedConfig.agentOverrides?.[agentType]
HasOverride(cfg, agentType) == \E o \in cfg.agentOverrides : o.agent = agentType

OverrideOf(cfg, agentType) == CHOOSE o \in cfg.agentOverrides : o.agent = agentType

\* Mutant: the agent overrides are looked at before the explicit model.
routeTask_OverrideFirst(ctx, cfg, sig) ==
    IF ~cfg.enabled
    THEN createDecision(cfg.defaultTier,
                        <<Reason("Routing disabled, using default tier", "", "", 0)>>,
                        FALSE, Undefined)
    ELSE IF Truthy(ctx.agentType) /\ HasOverride(cfg, ctx.agentType)
    THEN createDecision(OverrideOf(cfg, ctx.agentType).tier,
                        <<Reason(OverrideOf(cfg, ctx.agentType).reason, "", "", 0)>>,
                        FALSE, Undefined)
    ELSE IF Truthy(ctx.explicitModel)
    THEN createDecision(modelTypeToTier(ctx.explicitModel),
                        <<Reason("Explicit model specified by user", "", "", 0)>>,
                        FALSE, Undefined)
    ELSE LET ruleResult == evaluateRules(ctx, sig, DEFAULT_ROUTING_RULES)
         IN IF ruleResult.tier = "EXPLICIT"
            THEN createDecision("MEDIUM",
                                <<Reason("Unexpected EXPLICIT tier", "", "", 0)>>,
                                FALSE, Undefined)
            ELSE [model |-> Lookup("mergedConfig.tierModels", ruleResult.tier),
                  modelType |-> Lookup("TIER_TO_MODEL_TYPE", ruleResult.tier),
                  tier |-> ruleResult.tier,
                  confidence |-> "calculateConfidence",
                  reasons |-> <<Reason(ruleResult.reason, "", "", 0),
                                Reason("Rule: ", ruleResult.ruleName, "", 0),
                                Reason("Score: ", "", "", 0)>>,
                  escalated |-> FALSE,
                  originalTier |-> Undefined]

\* routeTask(context, config); cfg is mergedConfig, the defaults overlaid
\* with config, and sig is what extractAllSignals(context.taskPrompt,
\* context) returned.
routeTask(ctx, cfg, sig) ==
    IF ~cfg.enabled
    THEN createDecision(cfg.defaultTier,
                        <<Reason("Routing disabled, using default tier", "", "", 0)>>,
                        FALSE, Undefined)
    ELSE IF Truthy(ctx.explicitModel)
    THEN createDecision(modelTypeToTier(ctx.explicitModel),
                        <<Reason("Explicit model specified by user", "", "", 0)>>,
                        FALSE, Undefined)
    ELSE IF Truthy(ctx.agentType) /\ HasOverride(cfg, ctx.agentType)
    THEN createDecision(OverrideOf(cfg, ctx.agentType).tier,
                        <<Reason(OverrideOf(cfg, ctx.agentType).reason, "", "", 0)>>,
                        FALSE, Undefined)
    ELSE LET ruleResult == evaluateRules(ctx, sig, DEFAULT_ROUTING_RULES)
         IN IF ruleResult.tier = "EXPLICIT"
            THEN createDecision("MEDIUM",
                                <<Reason("Unexpected EXPLICIT tier", "", "", 0)>>,
                                FALSE, Undefined)
            ELSE [model |-> Lookup("mergedConfig.tierModels", ruleResult.tier),
                  modelType |-> Lookup("TIER_TO_MODEL_TYPE", ruleResult.tier),
                  tier |-> ruleResult.tier,
                  confidence |-> "calculateConfidence",
                  reasons |-> <<Reason(ruleResult.reason, "", "", 0),
                                Reason("Rule: ", ruleResult.ruleName, "", 0),
                                Reason("Score: ", "", "", 0)>>,
                  escalated |-> FALSE,
                  originalTier |-> Undefined]

escalateModel(currentTier) ==
    CASE currentTier = "LOW" -> "MEDIUM"
      [] currentTier = "MEDIUM" -> "HIGH"
      [] OTHER -> "HIGH"

\* for (let i = 0; i < previousFailures; i++) escalatedTier = escalateModel(escalatedTier)
RECURSIVE EscalateLoop(_, _)
EscalateLoop(tier, n) ==
    IF n <= 0 THEN tier ELSE EscalateLoop(escalateModel(tier), n - 1)

\* Mutant: the loop is run whatever maxEscalations is.
routeWithEscalation_NoMax(ctx, cfg, sig) ==
    LET previousFailures == Coalesce(ctx.previousFailures, 0)
        initialDecision == routeTask(ctx, cfg, sig)
        escalatedTier == EscalateLoop(initialDecision.tier, previousFailures)
    IN IF previousFailures = 0 \/ ~cfg.escalationEnabled
       THEN initialDecision
       ELSE IF escalatedTier # initialDecision.tier
       THEN [initialDecision EXCEPT
               !.tier = escalatedTier,
               !.model = Lookup("mergedConfig.tierModels", escalatedTier),
               !.modelType = Lookup("TIER_TO_MODEL_TYPE", escalatedTier),
               !.escalated = TRUE,
               !.originalTier = initialDecision.tier,
               !.reasons = @ \o <<Reason("Escalated from  to  after  failure(s)",
                                         initialDecision.tier, escalatedTier,
                                         previousFailures)>>]
       ELSE initialDecision

routeWithEscalation(ctx, cfg, sig) ==
    LET previousFailures == Coalesce(ctx.previousFailures, 0)
        initialDecision == routeTask(ctx, cfg, sig)
        escalatedTier == EscalateLoop(initialDecision.tier, previousFailures)
    IN IF previousFailures = 0 \/ ~cfg.escalationEnabled
       THEN initialDecision
       ELSE IF previousFailures > cfg.maxEscalations
       THEN [initialDecision EXCEPT
               !.tier = "HIGH",
               !.model = Lookup("mergedConfig.tierModels", "HIGH"),
               !.modelType = Lookup("literal", "opus"),
               !.escalated = TRUE,
               !.originalTier = initialDecision.tier,
               !.reasons = @ \o <<Reason("Escalated to max tier after  failures",
                                         "", "", previousFailures)>>]
       ELSE IF escalatedTier # initialDecision.tier
       THEN [initialDecision EXCEPT
               !.tier = escalatedTier,
               !.model = Lookup("mergedConfig.tierModels", escalatedTier),
               !.modelType = Lookup("TIER_TO_MODEL_TYPE", escalatedTier),
               !.escalated = TRUE,
               !.originalTier = initialDecision.tier,
               !.reasons = @ \o <<Reason("Escalated from  to  after  failure(s)",
                                         initialDecision.tier, escalatedTier,
                                         previousFailures)>>]
       ELSE initialDecision

NoContext ==
    [agentType |-> Undefined, explicitModel |-> Undefined, previousFailures |-> <<>>]

NoSignals ==
    [lexical |-> [wordCount |-> 0, hasArchitectureKeywords |-> FALSE,
                  hasDebuggingKeywords |-> FALSE, hasSimpleKeywords |-> FALSE,
                  hasRiskKeywords |-> FALSE, questionDepth |-> "none"],
     structural |-> [estimatedSubtasks |-> 0, crossFileDependencies |-> FALSE,
                     impactScope |-> "local", domainSpecificity |-> "generic",
                     reversibility |-> "easy"]]

NoConfig ==
    [enabled |-> TRUE, defaultTier |-> "MEDIUM", escalationEnabled |-> TRUE,
     maxEscalations |-> 0, agentOverrides |-> {}]

\* No function of the router has been called; list is the rule list a
\* call of evaluateRules will be given.
RouterIdle(list) ==
    /\ routeCall = "none"
    /\ context = NoContext
    /\ signals = NoSignals
    /\ mergedConfig = NoConfig
    /\ rules = list
    /\ evaluated = NoRuleResult
    /\ decision = NoDecision

\* No request has been received.
HandlerInit ==
    /\ pc = "idle"
    /\ req = NoRequest
    /\ trace = <<>>
    /\ fullPrompt = NoFullPrompt
    /\ promptResult = NoPrompt
    /\ modelsToTry = <<>>
    /\ errors = <<>>
    /\ result = NoResult
    /\ execs = <<>>
    /\ jobs = [j \in JobIds |-> NoJob]
    /\ store = [j \in JobIds |-> NoStatus]
    /\ statusLog = [j \in JobIds |-> <<>>]
    /\ responses = <<>>

\* The module was evaluated with the timeout variable unset, and
\* parseCodexOutput has not been called.
Init ==
    /\ HandlerInit
    /\ rawOutput = <<>>
    /\ decoded = <<>>
    /\ env = EnvUnset
    /\ TIMEOUT = EffectiveTimeout(EnvUnset)
    /\ platform = "linux"
    /\ responseStoreFails = FALSE
    /\ RouterIdle(DEFAULT_ROUTING_RULES)

\* ------------------------------------------------------- request handlers
\* What `child.pid` reads after spawn.
PidRead(pidObtained) == IF pidObtained THEN "pid" ELSE "undefined"

\* What the supervisor does once it has a pid, in the order of its body.
SupervisorCalls(id) ==
    <<Call("unref", "child", id),
      Call("writeJobStatus", "spawned", id),
      Call("setTimeout", "timeoutHandle", id),
      Call("on", "stdout data", id),
      Call("on", "stderr data", id),
      Call("on", "stdin error", id),
      Call("stdin.write", "fullPrompt", id),
      Call("stdin.end", "", id),
      Call("writeJobStatus", "running", id),
      Call("on", "close", id),
      Call("on", "error", id)>>

\* Mutant: a spawn that gave no pid is tried a second time.
executeBackground_Respawn(st, provider, model, id, role, pidObtained) ==
    LET spawned == [st EXCEPT !.trace = @ \o <<Call("spawn", model, id),
                                                Call("child.pid", PidRead(pidObtained), id)>>]
        initialStatus == InitialStatus(provider, model, st.promptResult, role)
    IN IF ~pidObtained
       THEN [spawned EXCEPT !.trace = @ \o <<Call("spawn", model, id)>>,
                            !.returned = "error"]
       ELSE [spawned EXCEPT
               !.trace = @ \o SupervisorCalls(id),
               !.jobs = [@ EXCEPT ![id] = NewJob(initialStatus)],
               !.store = writeJobStatus(writeJobStatus(@, id, initialStatus),
                                        id, RunningStatus(initialStatus)),
               !.statusLog = [@ EXCEPT ![id] = @ \o <<initialStatus,
                                                        RunningStatus(initialStatus)>>],
               !.returned = "pid"]

\* Mutant: a spawn that gave no pid returns the (undefined) pid, not an error.
executeBackground_NoPidCheck(st, provider, model, id, role, pidObtained) ==
    LET spawned == [st EXCEPT !.trace = @ \o <<Call("spawn", model, id),
                                                Call("child.pid", PidRead(pidObtained), id)>>]
        initialStatus == InitialStatus(provider, model, st.promptResult, role)
    IN IF ~pidObtained
       THEN [spawned EXCEPT !.returned = "pid"]
       ELSE [spawned EXCEPT
               !.trace = @ \o SupervisorCalls(id),
               !.jobs = [@ EXCEPT ![id] = NewJob(initialStatus)],
               !.store = writeJobStatus(writeJobStatus(@, id, initialStatus),
                                        id, RunningStatus(initialStatus)),
               !.statusLog = [@ EXCEPT ![id] = @ \o <<initialStatus,
                                                        RunningStatus(initialStatus)>>],
               !.returned = "pid"]

\* Mutant: the spawned status is written before the pid is looked at.
executeBackground_SpawnedFirst(st, provider, model, id, role, pidObtained) ==
    LET spawned == [st EXCEPT !.trace = @ \o <<Call("spawn", model, id),
                                                Call("child.pid", PidRead(pidObtained), id)>>]
        initialStatus == InitialStatus(provider, model, st.promptResult, role)
    IN IF ~pidObtained
       THEN [spawned EXCEPT
               !.trace = @ \o <<Call("writeJobStatus", "spawned", id)>>,
               !.store = writeJobStatus(@, id, initialStatus),
               !.statusLog = [@ EXCEPT ![id] = @ \o <<initialStatus>>],
               !.returned = "error"]
       ELSE [spawned EXCEPT
               !.trace = @ \o SupervisorCalls(id),
               !.jobs = [@ EXCEPT ![id] = NewJob(initialStatus)],
               !.store = writeJobStatus(writeJobStatus(@, id, initialStatus),
                                        id, RunningStatus(initialStatus)),
               !.statusLog = [@ EXCEPT ![id] = @ \o <<initialStatus,
                                                        RunningStatus(initialStatus)>>],
               !.returned = "pid"]

\* Mutant: the running status is written first and the spawned status last,
\* after the handlers are registered.
executeBackground_RunningFirst(st, provider, model, id, role, pidObtained) ==
    LET spawned == [st EXCEPT !.trace = @ \o <<Call("spawn", model, id),
                                                Call("child.pid", PidRead(pidObtained), id)>>]
        initialStatus == InitialStatus(provider, model, st.promptResult, role)
    IN IF ~pidObtained
       THEN [spawned EXCEPT !.returned = "error"]
       ELSE [spawned EXCEPT
               !.trace = @ \o SupervisorCalls(id),
               !.jobs = [@ EXCEPT ![id] = NewJob(initialStatus)],
               !.store = writeJobStatus(writeJobStatus(@, id, RunningStatus(initialStatus)),
                                        id, initialStatus),
               !.statusLog = [@ EXCEPT ![id] = @ \o <<RunningStatus(initialStatus),
                                                        initialStatus>>],
               !.returned = "pid"]

\* executeCodexBackground / executeGeminiBackground, called with the state
\* st of the handler: the whole synchronous body up to its return.
executeBackground(st, provider, model, id, role, pidObtained) ==
    LET spawned == [st EXCEPT !.trace = @ \o <<Call("spawn", model, id),
                                                Call("child.pid", PidRead(pidObtained), id)>>]
        initialStatus == InitialStatus(provider, model, st.promptResult, role)
    IN IF ~pidObtained
       THEN [spawned EXCEPT !.returned = "error"]
       ELSE [spawned EXCEPT
               !.trace = @ \o SupervisorCalls(id),
               !.jobs = [@ EXCEPT ![id] = NewJob(initialStatus)],
               !.store = writeJobStatus(writeJobStatus(@, id, initialStatus),
                                        id, RunningStatus(initialStatus)),
               !.statusLog = [@ EXCEPT ![id] = @ \o <<initialStatus,
                                                        RunningStatus(initialStatus)>>],
               !.returned = "pid"]

\* Mutant: the background branch does not look at what persistPrompt returned.
NoPromptResult_Ignored(p) == FALSE

\* !promptResult
NoPromptResult(p) == ~p.ok

\* Mutant: a list of exactly MAX_CONTEXT_FILES entries is rejected too.
TooManyFiles_AtCap(args) ==
    args.nFiles > 0 /\ args.nFiles >= MAX_CONTEXT_FILES

\* context_files && context_files.length > 0
\*     && context_files.length > MAX_CONTEXT_FILES
TooManyFiles(args) ==
    args.nFiles > 0 /\ args.nFiles > MAX_CONTEXT_FILES

\* `Too many context files (max ${MAX_CONTEXT_FILES}, got ${n})`, word by word
TooManyFilesText(n) ==
    <<"Too many context files", "max", ToString(MAX_CONTEXT_FILES),
      "got", ToString(n)>>

\* `... CLI is not available: ${detection.error}\n\n${detection.installHint}`
CliUnavailableText ==
    <<"CLI is not available", "detection.error", "detection.installHint">>

\* Mutant: the length of the file list is checked before the CLI is looked for.
handleAsk_FilesFirst(args, cliAvailable, persisted, pidObtained) ==
    LET provider == args.provider
        model == ModelOf(args)
        st0 == [trace |-> trace, fullPrompt |-> NoFullPrompt,
                promptResult |-> NoPrompt, modelsToTry |-> <<>>,
                result |-> NoResult, pc |-> "done", execs |-> execs,
                jobs |-> jobs, store |-> store, statusLog |-> statusLog,
                returned |-> "none"]
        detected == [st0 EXCEPT
                       !.trace = @ \o <<Call("detectCli",
                                             IF cliAvailable THEN "available"
                                             ELSE "unavailable", 0)>>]
        resolved == [detected EXCEPT
                       !.trace = @ \o <<Call("resolveSystemPrompt", args.agent_role, 0)>>]
        id == FreshId
        fileContext == Repeat(validateAndReadFile(args.filesReadable), args.nFiles)
        prompted == [resolved EXCEPT
                       !.trace = @ \o Repeat(Call("validateAndReadFile",
                                                   validateAndReadFile(args.filesReadable), 0),
                                              args.nFiles)
                                   \o <<Call("buildPromptWithSystemContext", "prompt", 0),
                                        Call("persistPrompt", model, 0)>>,
                       !.fullPrompt = buildPromptWithSystemContext(
                                         "prompt", fileContext, args.agent_role),
                       !.promptResult = IF persisted
                                        THEN [ok |-> TRUE, id |-> id, slug |-> SlugOf(id),
                                              filePath |-> PromptFileOf(id)]
                                        ELSE NoPrompt]
        chain == IF provider = "gemini" THEN FallbackChain(model) ELSE <<>>
        first == IF provider = "gemini" THEN chain[1] ELSE model
        dispatched == executeBackground([prompted EXCEPT !.modelsToTry = chain],
                                        provider, first, id, args.agent_role,
                                        pidObtained)
    IN IF InvalidRole(args)
       THEN [st0 EXCEPT !.result = Result(TRUE, "invalidRole", <<>>, <<>>)]
       ELSE IF TooManyFiles(args)
       THEN [st0 EXCEPT
               !.result = Result(TRUE, "tooManyFiles",
                                 TooManyFilesText(args.nFiles), <<>>)]
       ELSE IF ~cliAvailable
       THEN [detected EXCEPT !.result = Result(TRUE, "cliUnavailable", CliUnavailableText, <<>>)]
       ELSE IF args.background
       THEN IF NoPromptResult(prompted.promptResult)
            THEN [prompted EXCEPT !.result = Result(TRUE, "persistFailed", <<>>, <<>>)]
            ELSE IF dispatched.returned = "error"
            THEN [dispatched EXCEPT !.result = Result(TRUE, "spawnFailed", <<>>, <<>>)]
            ELSE [dispatched EXCEPT !.result = Result(FALSE, "dispatched", <<>>, <<>>)]
       ELSE [prompted EXCEPT
               !.modelsToTry = chain,
               !.trace = @ \o <<Call("spawn", first, 0)>>,
               !.execs = Append(@, NewExec(provider, first, prompted.fullPrompt)),
               !.pc = "await"]

\* handleAskCodex / handleAskGemini up to the first await or return.
\* cliAvailable, persisted and pidObtained are what detect*Cli, persistPrompt
\* and spawn answer.
handleAsk(args, cliAvailable, persisted, pidObtained) ==
    LET provider == args.provider
        model == ModelOf(args)
        st0 == [trace |-> trace, fullPrompt |-> NoFullPrompt,
                promptResult |-> NoPrompt, modelsToTry |-> <<>>,
                result |-> NoResult, pc |-> "done", execs |-> execs,
                jobs |-> jobs, store |-> store, statusLog |-> statusLog,
                returned |-> "none"]
        detected == [st0 EXCEPT
                       !.trace = @ \o <<Call("detectCli",
                                             IF cliAvailable THEN "available"
                                             ELSE "unavailable", 0)>>]
        resolved == [detected EXCEPT
                       !.trace = @ \o <<Call("resolveSystemPrompt", args.agent_role, 0)>>]
        id == FreshId
        fileContext == Repeat(validateAndReadFile(args.filesReadable), args.nFiles)
        prompted == [resolved EXCEPT
                       !.trace = @ \o Repeat(Call("validateAndReadFile",
                                                   validateAndReadFile(args.filesReadable), 0),
                                              args.nFiles)
                                   \o <<Call("buildPromptWithSystemContext", "prompt", 0),
                                        Call("persistPrompt", model, 0)>>,
                       !.fullPrompt = buildPromptWithSystemContext(
                                         "prompt", fileContext, args.agent_role),
                       !.promptResult = IF persisted
                                        THEN [ok |-> TRUE, id |-> id, slug |-> SlugOf(id),
                                              filePath |-> PromptFileOf(id)]
                                        ELSE NoPrompt]
        chain == IF provider = "gemini" THEN FallbackChain(model) ELSE <<>>
        first == IF provider = "gemini" THEN chain[1] ELSE model
        dispatched == executeBackground([prompted EXCEPT !.modelsToTry = chain],
                                        provider, first, id, args.agent_role,
                                        pidObtained)
    IN IF InvalidRole(args)
       THEN [st0 EXCEPT !.result = Result(TRUE, "invalidRole", <<>>, <<>>)]
       ELSE IF ~cliAvailable
       THEN [detected EXCEPT !.result = Result(TRUE, "cliUnavailable", CliUnavailableText, <<>>)]
       ELSE IF TooManyFiles(args)
       THEN [resolved EXCEPT
               !.result = Result(TRUE, "tooManyFiles",
                                 TooManyFilesText(args.nFiles), <<>>)]
       ELSE IF args.background
       THEN IF NoPromptResult(prompted.promptResult)
            THEN [prompted EXCEPT !.result = Result(TRUE, "persistFailed", <<>>, <<>>)]
            ELSE IF dispatched.returned = "error"
            THEN [dispatched EXCEPT !.result = Result(TRUE, "spawnFailed", <<>>, <<>>)]
            ELSE [dispatched EXCEPT !.result = Result(FALSE, "dispatched", <<>>, <<>>)]
       ELSE [prompted EXCEPT
               !.modelsToTry = chain,
               !.trace = @ \o <<Call("spawn", first, 0)>>,
               !.execs = Append(@, NewExec(provider, first, prompted.fullPrompt)),
               !.pc = "await"]

\* The variables after one call of the handler.
Handle(args, cliAvailable, persisted, pidObtained) ==
    /\ LET st == handleAsk(args, cliAvailable, persisted, pidObtained)
       IN /\ req' = args
          /\ pc' = st.pc
          /\ trace' = st.trace
          /\ fullPrompt' = st.fullPrompt
          /\ promptResult' = st.promptResult
          /\ modelsToTry' = st.modelsToTry
          /\ result' = st.result
          /\ execs' = st.execs
          /\ jobs' = st.jobs
          /\ store' = st.store
          /\ statusLog' = st.statusLog
    /\ UNCHANGED <<errors, responses, config>>

Receive(args, cliAvailable, persisted, pidObtained) ==
    /\ pc = "idle"
    /\ Handle(args, cliAvailable, persisted, pidObtained)

\* Mutant: the loop tries the model that just failed once more.
forOfNext_Repeat(list, visited) ==
    IF visited < Len(list) THEN <<list[visited]>> ELSE <<>>

\* for (const tryModel of modelsToTry): the element that follows the
\* `visited` ones already taken, or nothing when the list is used up.
forOfNext(list, visited) ==
    IF visited < Len(list) THEN <<list[visited + 1]>> ELSE <<>>

\* Mutant: the newest error is put in front.
pushError_Front(errs, model, message) ==
    <<[model |-> model, message |-> message]>> \o errs

\* errors.push(`${tryModel}: ${err.message}`)
pushError(errs, model, message) ==
    Append(errs, [model |-> model, message |-> message])

\* Mutant: the response is persisted whether or not there is a prompt record.
persistIfPrompted_Always(rs, p, record) == persistResponse(rs, record)

\* if (promptResult) { persistResponse({...}) }
persistIfPrompted(rs, p, record) ==
    IF p.ok THEN persistResponse(rs, record) ELSE rs

\* Mutant: the prompt is persisted again for every further attempt.
Attempt_Repersist(ex, tryModel) ==
    /\ execs' = Append(ex, NewExec(req.provider, tryModel, fullPrompt))
    /\ trace' = trace \o <<Call("persistPrompt", tryModel, 0),
                            Call("spawn", tryModel, 0)>>

\* The next turn of the loop: executeGemini(fullPrompt, tryModel), with the
\* prompt the handler built before the loop.
Attempt(ex, tryModel) ==
    /\ execs' = Append(ex, NewExec(req.provider, tryModel, fullPrompt))
    /\ trace' = Append(trace, Call("spawn", tryModel, 0))

\* The message of a write that failed.
PersistMessage == [kind |-> "persist", code |-> 0, text |-> <<"EACCES">>]

\* Mutant: a response that could not be persisted counts as a failure of
\* the attempt.
Resume_PersistChecked(ex, outcome) ==
    LET provider == req.provider
        requested == ModelOf(req)
        tryModel == ex[Len(ex)].model
        next == forOfNext(modelsToTry, Len(ex))
        written == ~(promptResult.ok /\ responseStoreFails)
    IN IF outcome.state = "resolved" /\ written
       THEN /\ responses' =
                 persistIfPrompted(responses, promptResult,
                         ResponseRecord(provider, req.agent_role, tryModel,
                                        promptResult.id, promptResult.slug,
                                        outcome.text, requested))
            /\ trace' = IF promptResult.ok
                        THEN Append(trace, Call("persistResponse", tryModel, promptResult.id))
                        ELSE trace
            /\ result' = [Result(FALSE, "response", outcome.text, <<>>) EXCEPT
                             !.note = FallbackNote(provider, tryModel, requested)]
            /\ pc' = "done"
            /\ execs' = ex
            /\ UNCHANGED errors
       ELSE IF provider = "codex"
       THEN /\ result' = Result(TRUE, "execError", <<>>,
                                <<[model |-> tryModel, message |-> (IF outcome.state = "resolved" THEN PersistMessage ELSE outcome.message)]>>)
            /\ pc' = "done"
            /\ execs' = ex
            /\ UNCHANGED <<errors, trace, responses>>
       ELSE /\ errors' = pushError(errors, tryModel, (IF outcome.state = "resolved" THEN PersistMessage ELSE outcome.message))
            /\ IF next # <<>>
               THEN /\ Attempt(ex, next[1])
                    /\ UNCHANGED <<pc, result>>
               ELSE /\ result' = Result(TRUE, "allFailed", <<>>, errors')
                    /\ pc' = "done"
                    /\ execs' = ex
                    /\ UNCHANGED trace
            /\ UNCHANGED responses

\* The continuation of `await executeCodex(...)` / `await executeGemini(...)`
\* once the call settled with `outcome`; ex is execs after the callback.
Resume(ex, outcome) ==
    LET provider == req.provider
        requested == ModelOf(req)
        tryModel == ex[Len(ex)].model
        next == forOfNext(modelsToTry, Len(ex))
    IN IF outcome.state = "resolved"
       THEN /\ responses' =
                 persistIfPrompted(responses, promptResult,
                         ResponseRecord(provider, req.agent_role, tryModel,
                                        promptResult.id, promptResult.slug,
                                        outcome.text, requested))
            /\ trace' = IF promptResult.ok
                        THEN Append(trace, Call("persistResponse", tryModel, promptResult.id))
                        ELSE trace
            /\ result' = [Result(FALSE, "response", outcome.text, <<>>) EXCEPT
                             !.note = FallbackNote(provider, tryModel, requested)]
            /\ pc' = "done"
            /\ execs' = ex
            /\ UNCHANGED errors
       ELSE IF provider = "codex"
       THEN /\ result' = Result(TRUE, "execError", <<>>,
                                <<[model |-> tryModel, message |-> outcome.message]>>)
            /\ pc' = "done"
            /\ execs' = ex
            /\ UNCHANGED <<errors, trace, responses>>
       ELSE /\ errors' = pushError(errors, tryModel, outcome.message)
            /\ IF next # <<>>
               THEN /\ Attempt(ex, next[1])
                    /\ UNCHANGED <<pc, result>>
               ELSE /\ result' = Result(TRUE, "allFailed", <<>>, errors')
                    /\ pc' = "done"
                    /\ execs' = ex
                    /\ UNCHANGED trace
            /\ UNCHANGED responses

\* A callback of executor closure i ran and left it as e.
ExecStep(i, e) ==
    /\ IF ~execs[i].settled /\ e.settled /\ pc = "await" /\ i = Len(execs)
       THEN Resume([execs EXCEPT ![i] = e], e.outcome)
       ELSE /\ execs' = [execs EXCEPT ![i] = e]
            /\ UNCHANGED <<pc, trace, errors, result, responses>>
    /\ UNCHANGED <<req, fullPrompt, promptResult, modelsToTry, jobs, store, statusLog, config>>

\* ------------------------------------- executeCodex / executeGemini events
\* Each operator is one callback applied to the closure c.  stdout and
\* stderr are read only behind the latch, so a closure that settles drops
\* them (Settled).
Settled(c, outcome) ==
    [c EXCEPT !.settled = TRUE, !.settles = @ + 1, !.outcome = outcome,
              !.stdout = <<>>, !.stderr = <<>>]

\* Mutant: the timer terminates the child and leaves the rejection to the
\* close event.
execOnTimeout_KillOnly(c) ==
    IF ~c.settled
    THEN [c EXCEPT !.timer = "fired", !.kills = @ + 1]
    ELSE [c EXCEPT !.timer = "fired"]

execOnTimeout(c) ==
    IF ~c.settled
    THEN Settled([c EXCEPT !.timer = "fired", !.kills = @ + 1],
                 Rejected(TimeoutMessage))
    ELSE [c EXCEPT !.timer = "fired"]

\* Mutant: the close handler does not look at the latch.
execOnClose_NoLatch(c, code) ==
    Settled([c EXCEPT !.closed = TRUE, !.exitCode = code, !.timer = "cleared"],
            CloseOutcome(c.provider, code, c.stdout, c.stderr))

execOnClose(c, code) ==
    IF ~c.settled
    THEN Settled([c EXCEPT !.closed = TRUE, !.exitCode = code, !.timer = "cleared"],
                 CloseOutcome(c.provider, code, c.stdout, c.stderr))
    ELSE [c EXCEPT !.closed = TRUE]

\* Mutant: the error handler rejects without terminating the child.
execOnError_NoKill(c) ==
    IF ~c.settled
    THEN Settled([c EXCEPT !.timer = "cleared"], Rejected(SpawnMessage))
    ELSE c

execOnError(c) ==
    IF ~c.settled
    THEN Settled([c EXCEPT !.timer = "cleared", !.kills = @ + 1],
                 Rejected(SpawnMessage))
    ELSE c

\* Mutant: the stdin-error handler rejects without terminating the child.
execOnStdinError_NoKill(c) ==
    IF ~c.settled
    THEN Settled([c EXCEPT !.timer = "cleared"], Rejected(StdinMessage))
    ELSE c

execOnStdinError(c) ==
    IF ~c.settled
    THEN Settled([c EXCEPT !.timer = "cleared", !.kills = @ + 1],
                 Rejected(StdinMessage))
    ELSE c

\* The buffers are read only behind the latch, so output that arrives after
\* the closure settled is not recorded.
ExecStdout(i, chunk) ==
    /\ ~execs[i].closed /\ ~execs[i].settled /\ Len(execs[i].stdout) < MaxOut
    /\ ExecStep(i, [execs[i] EXCEPT !.stdout = @ \o <<chunk>>])

ExecStderr(i, chunk) ==
    /\ ~execs[i].closed /\ ~execs[i].settled /\ Len(execs[i].stderr) < MaxOut
    /\ ExecStep(i, [execs[i] EXCEPT !.stderr = @ \o <<chunk>>])

ExecTimeout(i) ==
    /\ execs[i].timer = "armed"
    /\ ExecStep(i, execOnTimeout(execs[i]))

ExecClose(i, code) ==
    /\ ~execs[i].closed
    /\ ExecStep(i, execOnClose(execs[i], code))

ExecError(i) ==
    /\ ~execs[i].closed
    /\ ExecStep(i, execOnError(execs[i]))

ExecStdinError(i) ==
    /\ ~execs[i].closed
    /\ ExecStep(i, execOnStdinError(execs[i]))

\* ------------- executeCodexBackground / executeGeminiBackground events
\* Each operator is one callback applied to the closure c: the closure it
\* leaves, the calls it makes in order, the status record it writes (a
\* sequence of none or one) and the response record it persists.
Quiet(c) == [c |-> c, calls |-> <<>>, status |-> <<>>, response |-> <<>>]

\* The closure sets its latch and makes one writeJobStatus call.
Write(c, status, message) ==
    [c |-> [c EXCEPT !.settled = TRUE, !.stdout = <<>>, !.stderr = <<>>],
     calls |-> <<Call("writeJobStatus", status, c.jobId)>>,
     status |-> <<FailureStatus(c.initialStatus, status, message)>>,
     response |-> <<>>]

\* Mutant: the timer sets the latch and kills, but writes no status.
jobOnTimeout_Silent(c, killThrows) ==
    Quiet([c EXCEPT !.timer = "fired", !.settled = TRUE,
                    !.kills = IF c.settled THEN @ ELSE @ + 1])

\* process.platform !== 'win32' ? process.kill(-pid, 'SIGTERM')
\*                               : child.kill('SIGTERM')
KillOnTimeout(killThrows) ==
    IF platform # "win32"
    THEN Signal("process.kill", "-pid", killThrows)
    ELSE Signal("child.kill", "child", killThrows)

\* Mutant: a signal that cannot be sent ends the callback: the latch is
\* set but no status is written.
jobOnTimeout_Unguarded(c, killThrows) ==
    IF ~c.settled
    THEN IF killThrows
         THEN Quiet([c EXCEPT !.timer = "fired", !.settled = TRUE, !.kills = @ + 1,
                              !.signal = KillOnTimeout(killThrows)])
         ELSE Write([c EXCEPT !.timer = "fired", !.kills = @ + 1,
                              !.signal = KillOnTimeout(killThrows)],
                    "timeout", TimeoutMessage)
    ELSE Quiet([c EXCEPT !.timer = "fired"])

\* The timer callback; killThrows is whether sending the signal throws.
jobOnTimeout(c, killThrows) ==
    IF ~c.settled
    THEN Write([c EXCEPT !.timer = "fired", !.kills = @ + 1,
                         !.signal = KillOnTimeout(killThrows)],
               "timeout", TimeoutMessage)
    ELSE Quiet([c EXCEPT !.timer = "fired"])

\* Mutant: the stdin-error handler of the supervisor terminates the child,
\* as the one of the executor does.
jobOnStdinError_Kill(c) ==
    IF c.settled THEN Quiet(c)
    ELSE Write([c EXCEPT !.timer = "cleared", !.kills = @ + 1,
                         !.signal = Signal("child.kill", "child", FALSE)],
               "failed", StdinMessage)

jobOnStdinError(c) ==
    IF c.settled THEN Quiet(c)
    ELSE Write([c EXCEPT !.timer = "cleared"], "failed", StdinMessage)

\* Mutant: the close handler persists what the child wrote before it
\* classifies the exit.
jobOnClose_PersistFirst(c, code) ==
    LET d == [c EXCEPT !.closed = TRUE, !.exitCode = code]
        record == ResponseRecord(c.provider, c.agentRole, c.model, c.jobId, c.slug,
                                 Decode(c.provider, c.stdout), c.model)
    IN IF c.settled THEN Quiet(d)
       ELSE IF CloseSucceeds(code, c.stdout)
       THEN [c |-> [d EXCEPT !.settled = TRUE, !.timer = "cleared",
                             !.stdout = <<>>, !.stderr = <<>>],
             calls |-> <<Call("persistResponse", c.model, c.jobId),
                         Call("writeJobStatus", "completed", c.jobId)>>,
             status |-> <<CompletedStatus(c.initialStatus)>>,
             response |-> <<record>>]
       ELSE [c |-> [d EXCEPT !.settled = TRUE, !.timer = "cleared",
                             !.stdout = <<>>, !.stderr = <<>>],
             calls |-> <<Call("persistResponse", c.model, c.jobId),
                         Call("writeJobStatus", "failed", c.jobId)>>,
             status |-> <<FailureStatus(c.initialStatus, "failed",
                                        ExitMessage(code, c.stderr))>>,
             response |-> <<record>>]

\* Mutant: the close handler does not look at the latch.
jobOnClose_NoLatch(c, code) ==
    LET d == [c EXCEPT !.closed = TRUE, !.exitCode = code]
    IN IF CloseSucceeds(code, c.stdout)
       THEN [c |-> [d EXCEPT !.settled = TRUE, !.timer = "cleared",
                             !.stdout = <<>>, !.stderr = <<>>],
             calls |-> <<Call("persistResponse", c.model, c.jobId),
                         Call("writeJobStatus", "completed", c.jobId)>>,
             status |-> <<CompletedStatus(c.initialStatus)>>,
             response |-> <<ResponseRecord(c.provider, c.agentRole, c.model,
                                           c.jobId, c.slug,
                                           Decode(c.provider, c.stdout), c.model)>>]
       ELSE Write([d EXCEPT !.timer = "cleared"],
                  "failed", ExitMessage(code, c.stderr))

\* Mutant: the completed status is written before the response is persisted.
jobOnClose_StatusFirst(c, code) ==
    LET d == [c EXCEPT !.closed = TRUE, !.exitCode = code]
    IN IF c.settled THEN Quiet(d)
       ELSE IF CloseSucceeds(code, c.stdout)
       THEN [c |-> [d EXCEPT !.settled = TRUE, !.timer = "cleared",
                             !.stdout = <<>>, !.stderr = <<>>],
             calls |-> <<Call("writeJobStatus", "completed", c.jobId),
                         Call("persistResponse", c.model, c.jobId)>>,
             status |-> <<CompletedStatus(c.initialStatus)>>,
             response |-> <<ResponseRecord(c.provider, c.agentRole, c.model,
                                           c.jobId, c.slug,
                                           Decode(c.provider, c.stdout), c.model)>>]
       ELSE Write([d EXCEPT !.timer = "cleared"],
                  "failed", ExitMessage(code, c.stderr))

\* Mutant: the close handler of the supervisor takes exit code 0 only for
\* a success.
jobOnClose_ZeroOnly(c, code) ==
    LET d == [c EXCEPT !.closed = TRUE, !.exitCode = code]
    IN IF c.settled THEN Quiet(d)
       ELSE IF code = 0
       THEN [c |-> [d EXCEPT !.settled = TRUE, !.timer = "cleared",
                             !.stdout = <<>>, !.stderr = <<>>],
             calls |-> <<Call("persistResponse", c.model, c.jobId),
                         Call("writeJobStatus", "completed", c.jobId)>>,
             status |-> <<CompletedStatus(c.initialStatus)>>,
             response |-> <<ResponseRecord(c.provider, c.agentRole, c.model,
                                           c.jobId, c.slug,
                                           Decode(c.provider, c.stdout), c.model)>>]
       ELSE Write([d EXCEPT !.timer = "cleared"],
                  "failed", ExitMessage(code, c.stderr))

jobOnClose(c, code) ==
    LET d == [c EXCEPT !.closed = TRUE, !.exitCode = code]
    IN IF c.settled THEN Quiet(d)
       ELSE IF CloseSucceeds(code, c.stdout)
       THEN [c |-> [d EXCEPT !.settled = TRUE, !.timer = "cleared",
                             !.stdout = <<>>, !.stderr = <<>>],
             calls |-> <<Call("persistResponse", c.model, c.jobId),
                         Call("writeJobStatus", "completed", c.jobId)>>,
             status |-> <<CompletedStatus(c.initialStatus)>>,
             response |-> <<ResponseRecord(c.provider, c.agentRole, c.model,
                                           c.jobId, c.slug,
                                           Decode(c.provider, c.stdout), c.model)>>]
       ELSE Write([d EXCEPT !.timer = "cleared"],
                  "failed", ExitMessage(code, c.stderr))

\* Mutant: the error handler does not look at the latch.
jobOnError_NoLatch(c) ==
    Write([c EXCEPT !.timer = "cleared"], "failed", SpawnMessage)

jobOnError(c) ==
    IF c.settled THEN Quiet(c)
    ELSE Write([c EXCEPT !.timer = "cleared"], "failed", SpawnMessage)

\* writeJobStatus overwrites the record of the job; persistResponse adds one.
JobWrites(j, r) ==
    /\ jobs' = [jobs EXCEPT ![j] = r.c]
    /\ trace' = trace \o r.calls
    /\ store' = IF r.status = <<>> THEN store
                ELSE writeJobStatus(store, j, r.status[1])
    /\ statusLog' = [statusLog EXCEPT ![j] = @ \o r.status]
    /\ responses' = IF r.response = <<>> THEN responses
                    ELSE persistResponse(responses, r.response[1])

\* Mutant: the latch is one variable of the module, shared by all the
\* supervisor calls in flight.
JobStep_SharedLatch(j, r) ==
    /\ jobs' = [k \in JobIds |->
                  IF k = j THEN r.c
                  ELSE IF jobs[k].active
                  THEN [jobs[k] EXCEPT !.settled = @ \/ r.c.settled]
                  ELSE jobs[k]]
    /\ trace' = trace \o r.calls
    /\ store' = IF r.status = <<>> THEN store
                ELSE writeJobStatus(store, j, r.status[1])
    /\ statusLog' = [statusLog EXCEPT ![j] = @ \o r.status]
    /\ responses' = IF r.response = <<>> THEN responses
                    ELSE persistResponse(responses, r.response[1])
    /\ UNCHANGED <<pc, req, fullPrompt, promptResult, modelsToTry, errors, result,
                   execs, config>>

\* A callback of job j ran and left r.
JobStep(j, r) ==
    /\ JobWrites(j, r)
    /\ UNCHANGED <<pc, req, fullPrompt, promptResult, modelsToTry, errors, result,
                   execs, config>>

JobStdout(j, chunk) ==
    /\ jobs[j].active /\ ~jobs[j].closed /\ ~jobs[j].settled
    /\ Len(jobs[j].stdout) < MaxOut
    /\ JobStep(j, Quiet([jobs[j] EXCEPT !.stdout = @ \o <<chunk>>]))

JobStderr(j, chunk) ==
    /\ jobs[j].active /\ ~jobs[j].closed /\ ~jobs[j].settled
    /\ Len(jobs[j].stderr) < MaxOut
    /\ JobStep(j, Quiet([jobs[j] EXCEPT !.stderr = @ \o <<chunk>>]))

JobTimeout(j) ==
    /\ jobs[j].active /\ jobs[j].timer = "armed"
    /\ \E killThrows \in BOOLEAN : JobStep(j, jobOnTimeout(jobs[j], killThrows))

JobClose(j, code) ==
    /\ jobs[j].active /\ ~jobs[j].closed
    /\ JobStep(j, jobOnClose(jobs[j], code))

JobError(j) ==
    /\ jobs[j].active /\ ~jobs[j].closed
    /\ JobStep(j, jobOnError(jobs[j]))

JobStdinError(j) ==
    /\ jobs[j].active /\ ~jobs[j].closed
    /\ JobStep(j, jobOnStdinError(jobs[j]))

\* ---------------------------------------------------------- specification
Next ==
    \/ \E args \in Requests, cliAvailable, persisted, pidObtained \in BOOLEAN :
          Receive(args, cliAvailable, persisted, pidObtained)
    \/ \E i \in 1..Len(execs), chunk \in OutChunks : ExecStdout(i, chunk)
    \/ \E i \in 1..Len(execs), chunk \in ErrChunks : ExecStderr(i, chunk)
    \/ \E i \in 1..Len(execs) : ExecTimeout(i)
    \/ \E i \in 1..Len(execs), code \in ExitCodes : ExecClose(i, code)
    \/ \E i \in 1..Len(execs) : ExecError(i)
    \/ \E i \in 1..Len(execs) : ExecStdinError(i)
    \/ \E j \in JobIds, chunk \in OutChunks : JobStdout(j, chunk)
    \/ \E j \in JobIds, chunk \in ErrChunks : JobStderr(j, chunk)
    \/ \E j \in JobIds : JobTimeout(j)
    \/ \E j \in JobIds, code \in ExitCodes : JobClose(j, code)
    \/ \E j \in JobIds : JobError(j)
    \/ \E j \in JobIds : JobStdinError(j)

Spec == Init /\ [][Next]_vars

\* One request of any shape, followed up to the first await or return of
\* its handler.
HandlerNext ==
    \E args \in AllRequests, cliAvailable, persisted, pidObtained \in BOOLEAN :
        Receive(args, cliAvailable, persisted, pidObtained)

HandlerSpec == Init /\ [][HandlerNext]_vars

\* ------------------------------------------------------ one background job
Platforms == {"linux", "win32"}

\* Background requests that pass the checks of the handler.
BackgroundRequests ==
    {r \in AllRequests :
        /\ r.background /\ ~InvalidRole(r)
        /\ r.model = Undefined /\ r.nFiles = 0 /\ r.filesReadable}

\* One background request on either kind of platform, and every event of
\* the job it dispatches.
SupervisorInit ==
    /\ HandlerInit
    /\ rawOutput = <<>>
    /\ decoded = <<>>
    /\ env = EnvUnset
    /\ TIMEOUT = EffectiveTimeout(EnvUnset)
    /\ platform \in Platforms
    /\ responseStoreFails = FALSE
    /\ RouterIdle(DEFAULT_ROUTING_RULES)

SupervisorNext ==
    \/ \E args \in BackgroundRequests, cliAvailable, persisted, pidObtained \in BOOLEAN :
          Receive(args, cliAvailable, persisted, pidObtained)
    \/ \E j \in JobIds, chunk \in OutChunks : JobStdout(j, chunk)
    \/ \E j \in JobIds, chunk \in ErrChunks : JobStderr(j, chunk)
    \/ \E j \in JobIds : JobTimeout(j)
    \/ \E j \in JobIds, code \in ExitCodes : JobClose(j, code)
    \/ \E j \in JobIds : JobError(j)
    \/ \E j \in JobIds : JobStdinError(j)

SupervisorSpec == SupervisorInit /\ [][SupervisorNext]_vars

\* ------------------------------------------------- several background jobs
\* A further request arrives once the handler of the one before returned;
\* the jobs dispatched earlier are still running.
ReceiveBackground(args, pidObtained) ==
    /\ pc \in {"idle", "done"}
    /\ FreshId <= MaxJobs
    /\ Handle(args, TRUE, TRUE, pidObtained)

\* The requests that are followed while other jobs run: the callers take
\* turns, Codex first.
TurnOf(id) == IF id % 2 = 1 THEN "codex" ELSE "gemini"

\* Up to MaxJobs background requests, one after the other, and the events
\* of their jobs in any interleaving.
JobsNext ==
    \/ \E args \in BackgroundRequests :
          args.provider = TurnOf(FreshId) /\ ReceiveBackground(args, TRUE)
    \/ \E j \in JobIds, chunk \in JobOutChunks : JobStdout(j, chunk)
    \/ \E j \in JobIds : JobTimeout(j)
    \/ \E j \in JobIds, code \in ExitCodes : JobClose(j, code)
    \/ \E j \in JobIds : JobError(j)
    \/ \E j \in JobIds : JobStdinError(j)

JobsSpec == Init /\ [][JobsNext]_vars

\* ---------------------------------------------------- synchronous requests
\* Synchronous requests that pass the checks of the handler, with every
\* model a caller can name, so that every chain is walked.
SyncRequests ==
    {r \in AllRequests :
        /\ ~r.background /\ ~InvalidRole(r)
        /\ r.nFiles = 0 /\ r.filesReadable
        /\ r.provider = "codex" => r.model = Undefined}

\* One synchronous request and every event of the executor calls it makes.
SyncNext ==
    \/ \E args \in SyncRequests, persisted \in BOOLEAN :
          Receive(args, TRUE, persisted, TRUE)
    \/ \E i \in 1..Len(execs), chunk \in JobOutChunks : ExecStdout(i, chunk)
    \/ \E i \in 1..Len(execs) : ExecTimeout(i)
    \/ \E i \in 1..Len(execs), code \in ExitCodes : ExecClose(i, code)
    \/ \E i \in 1..Len(execs) : ExecError(i)
    \/ \E i \in 1..Len(execs) : ExecStdinError(i)

SyncSpec == Init /\ [][SyncNext]_vars

\* The same with a response store that cannot be written.
AuditInit ==
    /\ HandlerInit
    /\ rawOutput = <<>>
    /\ decoded = <<>>
    /\ env = EnvUnset
    /\ TIMEOUT = EffectiveTimeout(EnvUnset)
    /\ platform = "linux"
    /\ responseStoreFails = TRUE
    /\ RouterIdle(DEFAULT_ROUTING_RULES)

AuditSpec == AuditInit /\ [][SyncNext]_vars

\* The longest chain the loop of handleAskGemini can walk: the requested
\* model in front of the whole list.
MaxChain == Len(GEMINI_MODEL_FALLBACKS) + 1

\* The timer of executor call i fires.
ExecTimeoutAt(i) == i <= Len(execs) /\ ExecTimeout(i)

\* setTimeout: an armed timer that is not cleared fires.  Nothing is
\* assumed of the child: it may never write, fail or exit.
SyncFairSpec == SyncSpec /\ \A i \in 1..MaxChain : WF_vars(ExecTimeoutAt(i))

\* ------------------------------------------- one close event, both modes
\* What a child wrote to stdout and to stderr before it exited.
ClosedStdouts == UNION {[1..n -> OutChunks \cup {"sp"}] : n \in 0..(MaxOut + 1)}

ClosedStderrs == UNION {[1..n -> ErrChunks] : n \in 0..(MaxOut + 1)}

\* An executor call and a supervisor call of the same provider, both
\* unsettled, whose children wrote the same text to stdout and to stderr.
CloseInit ==
    \E provider \in Providers, out \in ClosedStdouts, err \in ClosedStderrs :
        LET model == IF provider = "codex" THEN CODEX_DEFAULT_MODEL
                     ELSE GEMINI_DEFAULT_MODEL
            role == IF provider = "codex" THEN "architect" ELSE "designer"
            p == [ok |-> TRUE, id |-> 1, slug |-> SlugOf(1), filePath |-> PromptFileOf(1)]
            initialStatus == InitialStatus(provider, model, p, role)
        IN /\ pc = "idle"
           /\ req = NoRequest
           /\ trace = <<Call("spawn", model, 0), Call("spawn", model, 1),
                        Call("child.pid", "pid", 1)>> \o SupervisorCalls(1)
           /\ fullPrompt = NoFullPrompt
           /\ promptResult = p
           /\ modelsToTry = <<>>
           /\ errors = <<>>
           /\ result = NoResult
           /\ execs = <<[NewExec(provider, model, NoFullPrompt) EXCEPT
                           !.stdout = out, !.stderr = err]>>
           /\ jobs = [j \in JobIds |->
                        IF j = 1
                        THEN [NewJob(initialStatus) EXCEPT !.stdout = out, !.stderr = err]
                        ELSE NoJob]
           /\ store = [j \in JobIds |->
                         IF j = 1 THEN RunningStatus(initialStatus) ELSE NoStatus]
           /\ statusLog = [j \in JobIds |->
                             IF j = 1 THEN <<initialStatus, RunningStatus(initialStatus)>>
                             ELSE <<>>]
           /\ responses = <<>>
           /\ rawOutput = <<>>
           /\ decoded = <<>>
           /\ env = EnvUnset
           /\ TIMEOUT = EffectiveTimeout(EnvUnset)
           /\ platform = "linux"
           /\ responseStoreFails = FALSE
           /\ RouterIdle(DEFAULT_ROUTING_RULES)

\* Both children exit with the same code: the close handler of each runs.
CloseBoth(code) ==
    /\ ~execs[1].closed /\ ~jobs[1].closed
    /\ execs' = [execs EXCEPT ![1] = execOnClose(@, code)]
    /\ JobWrites(1, jobOnClose(jobs[1], code))
    /\ UNCHANGED <<pc, req, fullPrompt, promptResult, modelsToTry, errors, result,
                   config>>

CloseNext == \E code \in ExitCodes : CloseBoth(code)

CloseSpec == CloseInit /\ [][CloseNext]_vars

\* ------------------------------------------------------- parseCodexOutput
\* One call of parseCodexOutput on any text of at most MaxText characters.
DecodeInit ==
    /\ HandlerInit
    /\ rawOutput \in Texts
    /\ decoded = <<>>
    /\ env = EnvUnset
    /\ TIMEOUT = EffectiveTimeout(EnvUnset)
    /\ platform = "linux"
    /\ responseStoreFails = FALSE
    /\ RouterIdle(DEFAULT_ROUTING_RULES)

CallParse ==
    /\ decoded = <<>>
    /\ decoded' = <<parseCodexOutput(rawOutput)>>
    /\ UNCHANGED <<rawOutput, env, TIMEOUT, platform, responseStoreFails, handlerVars,
                   routing>>

DecodeNext == CallParse

DecodeSpec == DecodeInit /\ [][DecodeNext]_vars

\* ------------------------------------------- CODEX_TIMEOUT / GEMINI_TIMEOUT
\* The module is evaluated once, with whatever the variable holds then; the
\* variable can be set again at any time.
TimeoutInit ==
    /\ HandlerInit
    /\ rawOutput = <<>>
    /\ decoded = <<>>
    /\ env \in EnvValues
    /\ TIMEOUT = NotLoaded
    /\ platform = "linux"
    /\ responseStoreFails = FALSE
    /\ RouterIdle(DEFAULT_ROUTING_RULES)

LoadModule ==
    /\ TIMEOUT = NotLoaded
    /\ TIMEOUT' = EffectiveTimeout(env)
    /\ UNCHANGED <<env, rawOutput, decoded, platform, responseStoreFails, handlerVars,
                   routing>>

SetEnv(e) ==
    /\ e # env
    /\ env' = e
    /\ UNCHANGED <<TIMEOUT, rawOutput, decoded, platform, responseStoreFails, handlerVars,
                   routing>>

TimeoutNext ==
    \/ LoadModule
    \/ \E e \in EnvValues : SetEnv(e)

TimeoutSpec == TimeoutInit /\ [][TimeoutNext]_vars

\* The fairness the event loop gives: an armed timer eventually fires.  The
\* job of one background request is followed through all of its events.
FairSpec == SupervisorSpec /\ \A j \in JobIds : WF_vars(JobTimeout(j))

\* ------------------------------------------------------------ observations
RECURSIVE CallsOf(_, _, _)
CallsOf(t, op, job) ==
    IF t = <<>> THEN <<>>
    ELSE (IF Head(t).op = op /\ Head(t).job = job THEN <<Head(t).arg>> ELSE <<>>)
         \o CallsOf(Tail(t), op, job)

\* The status values passed to writeJobStatus for job j, in call order.
StatusSeq(j) == CallsOf(trace, "writeJobStatus", j)

\* The models of the children spawned for job j (0: by the executor).
Spawned(j) == CallsOf(trace, "spawn", j)

AllSpawned == {c \in 1..Len(trace) : trace[c].op = "spawn"}

ResponsesOf(j) == {r \in 1..Len(responses) : responses[r].promptId = j}

IsPrefix(s, t) == Len(s) <= Len(t) /\ \A i \in 1..Len(s) : s[i] = t[i]

\* ----------------------------------------------------------------- claims
\* C1: the status values written for one background job are a prefix of
\* [spawned, running, T] with T terminal, so nothing follows a terminal one.
C1_StatusSequence ==
    \A j \in JobIds :
        LET w == StatusSeq(j)
        IN /\ Len(w) <= 3
           /\ Len(w) >= 1 => w[1] = "spawned"
           /\ Len(w) >= 2 => w[2] = "running"
           /\ Len(w) = 3 => w[3] \in Terminal

\* A job that a stdin error settled and whose child closed afterwards.
C1_Witness ==
    \E j \in JobIds :
        /\ StatusSeq(j) = <<"spawned", "running", "failed">>
        /\ store[j].error = StdinMessage
        /\ jobs[j].closed

\* C2: an executor call settles exactly once; the event that finds the latch
\* open decides the outcome and every later event changes neither the
\* outcome, nor the number of resolve/reject calls, nor the number of kills.
C2_SettledOnce ==
    /\ [](\A i \in 1..Len(execs) :
            /\ execs[i].settles = (IF execs[i].settled THEN 1 ELSE 0)
            /\ execs[i].settled <=> execs[i].outcome.state # "pending"
            /\ execs[i].kills <= 1)
    /\ [][\A i \in 1..Len(execs) :
            /\ execs[i].settled =>
                  /\ execs'[i].outcome = execs[i].outcome
                  /\ execs'[i].settles = execs[i].settles
                  /\ execs'[i].kills = execs[i].kills
            /\ (~execs[i].settled /\ execs'[i].settled) =>
                  /\ execs'[i].timer = "fired"
                        <=> execs'[i].outcome.message.kind = "timeout"
                  /\ execs'[i].outcome.state = "resolved" => execs'[i].closed]_vars

\* The timer settled the call and the close event arrived afterwards.
C2_Witness ==
    \E i \in 1..Len(execs) :
        /\ execs[i].timer = "fired"
        /\ execs[i].closed
        /\ execs[i].outcome = Rejected(TimeoutMessage)

\* C3: once the timer has settled a background job, a close event with exit
\* code 0 writes no status and persists no response: the status stays timeout.
C3_TimeoutPrecedence ==
    \A j \in JobIds :
        (Len(StatusSeq(j)) >= 3 /\ StatusSeq(j)[3] = "timeout") =>
            /\ store[j].status = "timeout"
            /\ StatusSeq(j) = <<"spawned", "running", "timeout">>
            /\ ResponsesOf(j) = {}

C3_Witness ==
    \E j \in JobIds :
        /\ jobs[j].timer = "fired"
        /\ jobs[j].closed
        /\ jobs[j].exitCode = 0

\* C4: every dispatched job eventually has a terminal status in the store
\* (the timer being fairly scheduled), and a terminal status is never
\* replaced or followed by another write.
C4_EventuallyTerminal ==
    /\ \A j \in JobIds : jobs[j].active ~> store[j].status \in Terminal
    /\ [][\A j \in JobIds :
            store[j].status \in Terminal =>
                /\ store'[j] = store[j]
                /\ CallsOf(trace', "writeJobStatus", j) = StatusSeq(j)]_vars

C4_Witness ==
    \E j \in JobIds :
        /\ store[j].status = "completed"
        /\ jobs[j].timer = "cleared"
        /\ ResponsesOf(j) # {}

\* C5: a request whose agent_role is missing or outside the provider's role
\* set gets an error result and nothing else has run: no CLI detection, no
\* file read, no prompt persistence, no status write, no child process.
C5_InvalidRoleShortCircuits ==
    (pc # "idle"
     /\ \/ req.agent_role \in {Undefined, ""}
        \/ req.provider = "codex" /\ req.agent_role \notin CODEX_VALID_ROLES
        \/ req.provider = "gemini" /\ req.agent_role \notin GEMINI_VALID_ROLES)
    => /\ pc = "done"
       /\ result.isError
       /\ result.kind = "invalidRole"
       /\ trace = <<>>
       /\ promptResult = NoPrompt
       /\ execs = <<>>
       /\ responses = <<>>
       /\ \A j \in JobIds : ~jobs[j].active /\ store[j].status = "none"

\* A background request to Codex with a role only Gemini accepts.
C5_Witness ==
    /\ pc = "done"
    /\ req.provider = "codex"
    /\ req.agent_role = "designer"
    /\ req.background
    /\ result.isError

\* The close event settled closure i in this step, with exit code
\* execs'[i].exitCode and the buffers execs[i].stdout and execs[i].stderr.
CloseSettles(i) ==
    ~execs[i].settled /\ execs'[i].settled /\ execs'[i].exitCode # NoExit

\* C6 as stated: success when c = 0 or s is non-empty, for both providers,
\* and exit code 1 with the output_text record gives the text ok.
C6_Original ==
    [][\A i \in 1..Len(execs) :
         CloseSettles(i) =>
            LET c == execs'[i].exitCode
                s == execs[i].stdout
                e == execs[i].stderr
            IN /\ IF c = 0 \/ s # <<>>
                  THEN execs'[i].outcome.state = "resolved"
                  ELSE execs'[i].outcome =
                          Rejected([kind |-> "exit", code |-> c,
                                    text |-> IF e = <<>> THEN NoOutput ELSE e])
               /\ (c = 1 /\ s = <<"J_output_ok">>) =>
                     execs'[i].outcome.text = <<"o", "k">>]_vars

\* C6, amended: success exactly when c = 0 or s has a character that is not
\* white space; the success carries parseCodexOutput(s) for Codex and the
\* trimmed s for Gemini; otherwise the failure carries c and e, or the
\* placeholder when e is empty.  Exit code 1 with the output_text record
\* gives the text ok for Codex and the record itself for Gemini.
C6_CloseClassification ==
    [][\A i \in 1..Len(execs) :
         CloseSettles(i) =>
            LET c == execs'[i].exitCode
                s == execs[i].stdout
                e == execs[i].stderr
                codex == execs[i].provider = "codex"
            IN /\ IF c = 0 \/ \E n \in 1..Len(s) : s[n] \notin Whitespace
                  THEN /\ execs'[i].outcome.state = "resolved"
                       /\ execs'[i].outcome.text =
                             IF codex THEN parseCodexOutput(s) ELSE Trim(s)
                  ELSE execs'[i].outcome =
                          Rejected([kind |-> "exit", code |-> c,
                                    text |-> IF e = <<>> THEN NoOutput ELSE e])
               /\ (c = 1 /\ s = <<"J_output_ok">>) =>
                     execs'[i].outcome.text =
                        IF codex THEN <<"o", "k">> ELSE <<"J_output_ok">>]_vars

\* Codex exited with code 1 after printing the output_text record.
C6_Witness ==
    \E i \in 1..Len(execs) :
        /\ execs[i].provider = "codex"
        /\ execs[i].exitCode = 1
        /\ execs[i].outcome = Resolved(<<"o", "k">>)

\* The chain the claim describes for the requested model m.
ClaimedChain(m) ==
    LET L == GEMINI_MODEL_FALLBACKS
    IN IF \E i \in 1..Len(L) : L[i] = m
       THEN LET i == CHOOSE i \in 1..Len(L) : L[i] = m
            IN [n \in 1..(Len(L) - i + 1) |-> L[n + i - 1]]
       ELSE <<m>> \o L

RequestedModel == IF req.model = Undefined THEN GEMINI_DEFAULT_MODEL ELSE req.model

GeminiChainBuilt == pc # "idle" /\ req.provider = "gemini" /\ modelsToTry # <<>>

\* C7: the chain is the suffix of the canonical list that starts at the
\* requested model, or the requested model followed by the whole list; only
\* models of the chain are attempted, in chain order from its first one.
C7_ChainConstruction ==
    GeminiChainBuilt =>
        /\ modelsToTry = ClaimedChain(RequestedModel)
        /\ \A j \in 0..MaxJobs : IsPrefix(Spawned(j), modelsToTry)
        /\ RequestedModel = GEMINI_MODEL_FALLBACKS[3] =>
              \A c \in AllSpawned :
                 trace[c].arg \notin {GEMINI_MODEL_FALLBACKS[1], GEMINI_MODEL_FALLBACKS[2]}

\* The 3rd canonical model was requested and the 3rd and 4th were attempted.
C7_Witness ==
    /\ GeminiChainBuilt
    /\ req.model = GEMINI_MODEL_FALLBACKS[3]
    /\ Spawned(0) = <<GEMINI_MODEL_FALLBACKS[3], GEMINI_MODEL_FALLBACKS[4]>>

GeminiSync == GeminiChainBuilt /\ ~req.background

\* C8: synchronous Gemini attempts the models in chain order, one executor
\* call per model; a model is attempted only after every earlier one failed;
\* the handler returns the response of the first success and attempts no
\* model after it.
C8_FallbackOrder ==
    GeminiSync =>
        /\ Len(execs) <= Len(modelsToTry)
        /\ Spawned(0) = [i \in 1..Len(execs) |-> modelsToTry[i]]
        /\ \A i \in 1..Len(execs) :
              /\ execs[i].model = modelsToTry[i]
              /\ i < Len(execs) => execs[i].outcome.state = "rejected"
              /\ execs[i].outcome.state = "resolved" =>
                    /\ i = Len(execs)
                    /\ pc = "done"
                    /\ ~result.isError
                    /\ result.text = execs[i].outcome.text
        /\ pc = "await" => execs[Len(execs)].outcome.state = "pending"

\* The first model failed and the second one answered.
C8_Witness ==
    /\ GeminiSync
    /\ Len(execs) = 2
    /\ execs[1].outcome.state = "rejected"
    /\ execs[2].outcome.state = "resolved"
    /\ result.kind = "response"

\* C9: when every model of the chain failed, the result is an error that
\* lists one entry per model of the chain, in attempt order, each with the
\* message of that model's failure.
C9_AggregateFailure ==
    (GeminiSync /\ pc = "done"
     /\ \A i \in 1..Len(execs) : execs[i].outcome.state = "rejected")
    => /\ result.isError
       /\ result.kind = "allFailed"
       /\ Len(execs) = Len(modelsToTry)
       /\ Len(result.errors) = Len(modelsToTry)
       /\ \A i \in 1..Len(result.errors) :
             /\ result.errors[i].model = modelsToTry[i]
             /\ result.errors[i].message = execs[i].outcome.message

\* A chain of two models, the first timed out and the second exited with 1.
C9_Witness ==
    /\ GeminiSync
    /\ Len(modelsToTry) = 2
    /\ result.kind = "allFailed"
    /\ result.errors[1].message.kind = "timeout"
    /\ result.errors[2].message.kind = "exit"

\* C10: a background request spawns at most one child, for Gemini with the
\* first model of the chain and for Codex with the requested model, and no
\* further child and no executor call follows, whatever status the job takes.
C10_BackgroundSingleSpawn ==
    (pc # "idle" /\ req.background) =>
        /\ Cardinality(AllSpawned) <= 1
        /\ execs = <<>>
        /\ Cardinality({j \in JobIds : jobs[j].active}) <= 1
        /\ \A c \in AllSpawned :
              trace[c].arg =
                 IF req.provider = "gemini" THEN ClaimedChain(RequestedModel)[1]
                 ELSE IF req.model = Undefined THEN CODEX_DEFAULT_MODEL
                 ELSE req.model
        /\ \A j \in JobIds : jobs[j].active => jobs[j].model = Spawned(j)[1]

\* A Gemini background job with a chain of four models that ended failed.
C10_Witness ==
    \E j \in JobIds :
        /\ req.background
        /\ req.provider = "gemini"
        /\ Len(modelsToTry) = 4
        /\ store[j].status = "failed"
        /\ jobs[j].closed
        /\ Cardinality(AllSpawned) = 1

\* A request with a valid role for which the CLI was found.
PastDetection ==
    /\ pc # "idle"
    /\ \/ req.provider = "codex" /\ req.agent_role \in CODEX_VALID_ROLES
       \/ req.provider = "gemini" /\ req.agent_role \in GEMINI_VALID_ROLES
    /\ CallsOf(trace, "detectCli", 0) = <<"available">>

\* C11: with a valid role and an available CLI, a list of more than 20
\* context files gets an error result that cites max 20, and no file was
\* read, no prompt persisted and no process spawned; a list of 20 or fewer
\* is not rejected and every file of it is read.
C11_FileCap ==
    PastDetection =>
        IF req.nFiles > 20
        THEN /\ pc = "done"
             /\ result.isError
             /\ result.kind = "tooManyFiles"
             /\ SubSeq(result.text, 2, 3) = <<"max", "20">>
             /\ CallsOf(trace, "validateAndReadFile", 0) = <<>>
             /\ CallsOf(trace, "persistPrompt", 0) = <<>>
             /\ promptResult = NoPrompt
             /\ AllSpawned = {}
             /\ execs = <<>>
             /\ \A j \in JobIds : ~jobs[j].active /\ store[j].status = "none"
        ELSE /\ result.kind # "tooManyFiles"
             /\ Len(CallsOf(trace, "validateAndReadFile", 0)) = req.nFiles
             /\ Len(CallsOf(trace, "persistPrompt", 0)) = 1

\* The scenario of 21 context files with background=false.
C11_Witness ==
    /\ PastDetection
    /\ req.nFiles = 21
    /\ ~req.background
    /\ result.kind = "tooManyFiles"

\* A request that passed role validation, CLI detection and the file cap.
PastValidation == PastDetection /\ req.nFiles <= 20

\* C12: a request that passes validation builds its full prompt once and
\* calls persistPrompt once, before any child is spawned; every attempt of
\* the fallback loop is given that same full prompt, and the response is
\* persisted under the id and slug persistPrompt returned.
C12_PromptOnce ==
    PastValidation =>
        /\ Len(CallsOf(trace, "buildPromptWithSystemContext", 0)) = 1
        /\ Len(CallsOf(trace, "persistPrompt", 0)) = 1
        /\ \A c \in AllSpawned :
              \E q \in 1..(c - 1) : trace[q].op = "persistPrompt"
        /\ \A i \in 1..Len(execs) :
              /\ execs[i].prompt = execs[1].prompt
              /\ execs[i].prompt.system = req.agent_role
              /\ Len(execs[i].prompt.files) = req.nFiles
        /\ Len(responses) <= 1
        /\ \A r \in 1..Len(responses) :
              /\ promptResult.ok
              /\ responses[r].promptId = promptResult.id
              /\ responses[r].slug = promptResult.slug

\* The third attempt of a Gemini request answered and was persisted.
C12_Witness ==
    /\ PastValidation
    /\ req.provider = "gemini"
    /\ Len(execs) = 3
    /\ Len(responses) = 1
    /\ responses[1].usedFallback
    /\ responses[1].promptId = promptResult.id

\* C13: when persistPrompt returns no result, a background request gets an
\* error result, no child is spawned and no status is written; a
\* synchronous request goes on to its executor call.
C13_PersistFailure ==
    (PastValidation /\ ~promptResult.ok) =>
        IF req.background
        THEN /\ pc = "done"
             /\ result.isError
             /\ result.kind = "persistFailed"
             /\ AllSpawned = {}
             /\ execs = <<>>
             /\ \A j \in 0..MaxJobs : StatusSeq(j) = <<>>
             /\ \A j \in JobIds : ~jobs[j].active /\ store[j].status = "none"
        ELSE /\ result.kind # "persistFailed"
             /\ Len(execs) >= 1
             /\ Cardinality(AllSpawned) = Len(execs)

\* A background request to Gemini whose prompt could not be persisted.
C13_Witness ==
    /\ PastValidation
    /\ ~promptResult.ok
    /\ req.background
    /\ req.provider = "gemini"
    /\ result.kind = "persistFailed"

\* The handler returned.
Returned == pc = "done"

RoleRejected ==
    \/ req.agent_role \in {Undefined, ""}
    \/ req.provider = "codex" /\ req.agent_role \notin CODEX_VALID_ROLES
    \/ req.provider = "gemini" /\ req.agent_role \notin GEMINI_VALID_ROLES

CliMissing == CallsOf(trace, "detectCli", 0) = <<"unavailable">>

FileUnread ==
    \E c \in 1..Len(trace) :
        /\ trace[c].op = "validateAndReadFile"
        /\ trace[c].arg = "--- File --- (Error reading file)"

PromptUnpersisted == CallsOf(trace, "persistPrompt", 0) # <<>> /\ ~promptResult.ok

\* A spawn for a background job gave no process id.
NoPid == \E j \in JobIds : Spawned(j) # <<>> /\ ~jobs[j].active

AttemptFailed == \E i \in 1..Len(execs) : execs[i].outcome.state = "rejected"

JobFailed == \E j \in JobIds : store[j].status \in {"failed", "timeout"}

\* C14 as stated: whatever failed on the way, the returned result has
\* isError set.
C14_Original ==
    (Returned /\ (RoleRejected \/ CliMissing \/ req.nFiles > 20 \/ FileUnread
                     \/ PromptUnpersisted \/ NoPid \/ AttemptFailed \/ JobFailed))
    => result.isError

\* The results a handler builds.
ResultKinds ==
    {"invalidRole", "cliUnavailable", "tooManyFiles", "persistFailed",
     "spawnFailed", "dispatched", "response", "execError", "allFailed"}

\* C14, amended: the handler always ends in a returned result, and the
\* result has isError set exactly when the role was rejected, the CLI was
\* missing, the file list was over the cap, a background request had no
\* persisted prompt or got no process id, or every attempt of a synchronous
\* request failed.  A file that could not be read, a prompt that could not
\* be persisted in synchronous mode, a failed attempt followed by a
\* successful one and a failure of a dispatched job leave isError unset.
C14_FlaggedFailures ==
    /\ pc \in {"idle", "await", "done"}
    /\ Returned =>
          /\ result.kind \in ResultKinds
          /\ result.isError <=>
                \/ RoleRejected
                \/ CliMissing
                \/ req.nFiles > 20
                \/ req.background /\ PromptUnpersisted
                \/ req.background /\ NoPid
                \/ /\ ~req.background
                   /\ execs # <<>>
                   /\ \A i \in 1..Len(execs) : execs[i].outcome.state = "rejected"

\* A synchronous request whose file could not be read and whose prompt
\* could not be persisted, answered without an error flag.
C14_Witness ==
    /\ Returned
    /\ FileUnread
    /\ PromptUnpersisted
    /\ ~req.background
    /\ result.kind = "response"
    /\ ~result.isError

\* A synchronous request whose execution succeeded: the handler returned
\* after an executor call that resolved.
SyncSucceeded ==
    /\ Returned
    /\ ~req.background
    /\ \E i \in 1..Len(execs) : execs[i].outcome.state = "resolved"

\* No status record was written and none is stored.
NoStatusWritten ==
    /\ \A c \in 1..Len(trace) : trace[c].op # "writeJobStatus"
    /\ \A j \in JobIds : store[j].status = "none" /\ ~jobs[j].active

\* C15 as stated: a synchronous success persists exactly one response
\* record and returns no error flag, and the synchronous path writes no
\* status.
C15_Original ==
    /\ SyncSucceeded => Len(responses) = 1 /\ ~result.isError
    /\ (pc # "idle" /\ ~req.background) => NoStatusWritten

\* C15, amended: a synchronous success returns no error flag and persists
\* exactly one response record when persistPrompt had returned a result,
\* and none when it had not; the synchronous path writes no status.
C15_SyncSuccess ==
    /\ SyncSucceeded =>
          /\ ~result.isError
          /\ result.kind = "response"
          /\ Len(responses) = (IF promptResult.ok THEN 1 ELSE 0)
          /\ Len(CallsOf(trace, "persistResponse", promptResult.id)) = Len(responses)
    /\ (pc # "idle" /\ ~req.background) => NoStatusWritten

\* Codex answered a synchronous request whose prompt was not persisted.
C15_Witness ==
    /\ SyncSucceeded
    /\ req.provider = "codex"
    /\ PromptUnpersisted
    /\ responses = <<>>
    /\ result.kind = "response"

\* C16: a job whose stored status is completed has its response record
\* persisted, and the persistResponse call for the job precedes the call
\* that wrote the completed status.
C16_ResponseBeforeCompleted ==
    /\ \A j \in JobIds :
          store[j].status = "completed" =>
              /\ Cardinality(ResponsesOf(j)) = 1
              /\ \A r \in ResponsesOf(j) : responses[r].slug = jobs[j].slug
    /\ \A c \in 1..Len(trace) :
          (trace[c].op = "writeJobStatus" /\ trace[c].arg = "completed") =>
              \E q \in 1..(c - 1) :
                  trace[q].op = "persistResponse" /\ trace[q].job = trace[c].job

\* A job completed by its output although the child exited with code 1.
C16_Witness ==
    \E j \in JobIds :
        /\ store[j].status = "completed"
        /\ jobs[j].exitCode = 1
        /\ ResponsesOf(j) # {}
        /\ StatusSeq(j) = <<"spawned", "running", "completed">>

\* p and q are places of the same line of s.
SameLine(s, p, q) ==
    \A k \in 1..Len(s) : ((p <= k /\ k <= q) \/ (q <= k /\ k <= p)) => s[k] # "nl"

\* The places of s that hold a record with text and nothing else on their
\* line but blanks.
TextRecords == {"J_output_ok", "J_message_k", "J_parts_o", "J_parts_o_null_k"}

RecordPlaces(s) ==
    {p \in 1..Len(s) :
        /\ s[p] \in TextRecords
        /\ \A q \in 1..Len(s) : (q # p /\ SameLine(s, p, q)) => s[q] = "sp"}

\* C17: a text in which no line is a message or output_text record with
\* text comes back from parseCodexOutput unchanged, blanks and line feeds
\* at its ends included.
C17_RawFallback ==
    (decoded # <<>> /\ RecordPlaces(rawOutput) = {}) => decoded = <<rawOutput>>

\* A blank, an unparseable value, a line feed and a record without text.
C17_Witness ==
    /\ rawOutput = <<"sp", "J_null", "nl", "J_output_empty">>
    /\ decoded = <<rawOutput>>

\* The text segments the claim collects from one record: the string content
\* of a message, the text of each part tagged text, the text of an
\* output_text record.
ClaimedParts(record) ==
    CASE record = "J_output_ok"       -> << <<"o", "k">> >>
      [] record = "J_message_k"       -> << <<"k">> >>
      [] record = "J_parts_o"         -> << <<"o">> >>
      [] record = "J_parts_o_null_k"  -> << <<"o">>, <<"k">> >>
      [] OTHER                        -> <<>>

\* The segments of the records of s from place p on, in the order of the
\* records and of the parts within a record.
RECURSIVE ClaimedSegments(_, _)
ClaimedSegments(s, p) ==
    IF p > Len(s) THEN <<>>
    ELSE (IF p \in RecordPlaces(s) THEN ClaimedParts(s[p]) ELSE <<>>)
         \o ClaimedSegments(s, p + 1)

\* C18: blank lines and lines that do not parse are skipped, and when at
\* least one segment is collected the result is the text of every message
\* record (string content, or each part tagged text) and of every
\* output_text record, joined by line feeds in the order of the records
\* and of the parts within a record.
C18_JoinedSegments ==
    (decoded # <<>> /\ ClaimedSegments(rawOutput, 1) # <<>>) =>
        decoded = <<Join(ClaimedSegments(rawOutput, 1))>>

\* The timeout the claim gives for a value of the variable.
ClaimedTimeout(e) ==
    IF e.kind # "int" THEN 3600000
    ELSE IF e.n < 5000 THEN 5000
    ELSE IF e.n > 3600000 THEN 3600000
    ELSE e.n

\* C19: the module computes its timeout once, as the configured integer
\* clamped to [5000, 3600000] (5000 for every value below 5000, 0 and
\* negative values included, 3600000 for every value above 3600000), or as
\* 3600000 when the variable is unset or not a number; setting the variable
\* afterwards does not change it.
C19_ClampedOnce ==
    [][/\ (TIMEOUT = NotLoaded /\ TIMEOUT' # NotLoaded) => TIMEOUT' = ClaimedTimeout(env)
       /\ TIMEOUT # NotLoaded => TIMEOUT' = TIMEOUT]_vars

\* A background request that reached the dispatch step, after its handler
\* returned.
Dispatching ==
    /\ Returned
    /\ req.background
    /\ PastValidation
    /\ promptResult.ok

\* C20 as stated: no spawn, stdin, exit or timeout failure of a background
\* job makes the result of the handler an error result; such a failure is
\* seen only as a terminal failed or timeout status.
C20_Original ==
    Dispatching =>
        /\ ~result.isError
        /\ NoPid => \E j \in JobIds : store[j].status \in {"failed", "timeout"}

\* C20, amended: when the spawn gives a process id the result is the
\* dispatch notice without an error flag, whatever fails afterwards, and a
\* spawn error, stdin error, exit or timeout failure is seen only as the
\* terminal failed or timeout status; when the spawn gives no process id
\* the result is an error result and no status record is written.
C20_BackgroundFailures ==
    Dispatching =>
        IF NoPid
        THEN /\ result.isError
             /\ result.kind = "spawnFailed"
             /\ \A j \in JobIds : store[j].status = "none" /\ StatusSeq(j) = <<>>
        ELSE /\ ~result.isError
             /\ result.kind = "dispatched"
             /\ \A j \in JobIds :
                   jobs[j].active =>
                       /\ store[j].status \in {"running"} \cup Terminal
                       /\ store[j].status = "timeout" <=> store[j].error.kind = "timeout"
                       /\ store[j].status = "failed" <=>
                             store[j].error.kind \in {"spawn", "stdin", "exit"}

\* The child of a dispatched job reported a spawn error: the status is
\* failed and the result stays the dispatch notice.
C20_Witness ==
    /\ Dispatching
    /\ result.kind = "dispatched"
    /\ \E j \in JobIds :
          store[j].status = "failed" /\ store[j].error.kind = "spawn"

\* ---------------------------------------------------------------- C21
\* The calls made for job j, in order.
JobCalls(j) == SelectSeq(trace, LAMBDA c : c.job = j)

\* The supervisor of job j read an undefined child.pid.
NoPidRead(j) == CallsOf(trace, "child.pid", j) = <<"undefined">>

\* C21: when the spawn of a background job yields no process id, the
\* supervisor returns an error value at once: after the spawn and the
\* look at child.pid it makes no further call for the job (no timer, no
\* stdin write, no handler registration), no status record is written
\* (neither spawned nor running), no closure with handlers exists, and the
\* handler reports the failed spawn.
C21_FailFastWithoutPid ==
    \A j \in JobIds :
        NoPidRead(j) =>
            /\ result.isError /\ result.kind = "spawnFailed"
            /\ Len(JobCalls(j)) = 2
            /\ JobCalls(j)[1].op = "spawn"
            /\ JobCalls(j)[2].op = "child.pid"
            /\ statusLog[j] = <<>>
            /\ store[j] = NoStatus
            /\ ~jobs[j].active
            /\ jobs[j].timer = "none"

C21_Witness ==
    \E j \in JobIds : NoPidRead(j) /\ pc = "done" /\ req.background

\* ---------------------------------------------------------------- C22
\* A synchronous Gemini request returned a response and its prompt had
\* been persisted.
GeminiAnswered ==
    /\ pc = "done" /\ req.provider = "gemini" /\ ~req.background
    /\ ~result.isError /\ result.kind = "response"
    /\ promptResult.ok

\* The model the caller asked for, the default when none was named.
ClaimedRequested == IF req.model = Undefined THEN GEMINI_DEFAULT_MODEL ELSE req.model

\* The executor calls that resolved.
ResolvedExecs == {i \in 1..Len(execs) : execs[i].outcome.state = "resolved"}

\* C22: for a successful synchronous Gemini request with a persisted
\* prompt, the one response record names the model whose executor call
\* resolved, has usedFallback true exactly when that model is not the
\* requested one, and fallbackModel equal to that model when usedFallback
\* and absent otherwise; the returned text carries the fallback note
\* (naming both models) exactly when usedFallback.
C22_FallbackAnnotation ==
    GeminiAnswered =>
        /\ Len(responses) = 1
        /\ Cardinality(ResolvedExecs) = 1
        /\ \A i \in ResolvedExecs :
              LET r == responses[1]
                  producer == execs[i].model
              IN /\ r.model = producer
                 /\ r.response = execs[i].outcome.text
                 /\ r.usedFallback = (producer # ClaimedRequested)
                 /\ r.fallbackModel = (IF r.usedFallback THEN producer ELSE Undefined)
                 /\ (result.note # <<>>) = r.usedFallback
                 /\ r.usedFallback =>
                       result.note = <<"Fallback: used", producer,
                                       "instead of", ClaimedRequested>>

C22_Witness ==
    /\ GeminiAnswered
    /\ responses[1].usedFallback
    /\ req.model = "gemini-2.5-pro"
    /\ responses[1].fallbackModel = "gemini-2.5-flash"

\* A request answered by the requested model itself: no note, no fallbackModel.
C22_WitnessDirect ==
    /\ GeminiAnswered
    /\ ~responses[1].usedFallback
    /\ result.note = <<>>

\* ---------------------------------------------------------------- C23
\* The status values of the records written for job j, in order.
StatusesOf(log) == [n \in 1..Len(log) |-> log[n].status]

\* The supervisor of job j returned a pid in this step.
PidReturned(j) ==
    /\ CallsOf(trace, "child.pid", j) = <<>>
    /\ CallsOf(trace', "child.pid", j) = <<"pid">>

\* A callback of job j ran in this step.
HandlerRan(j) == jobs[j].active /\ jobs'[j] # jobs[j]

\* C23: when the supervisor returns a pid, the spawned record and then the
\* running record have been written, and nothing else; no callback of the
\* job has run yet (latch open, timer armed, buffers empty), so a read of
\* the store right after the return finds running.  Every callback of the
\* job runs with both records already written, in that order.
C23_RunningOnReturn ==
    [][\A j \in JobIds :
          /\ PidReturned(j) =>
                /\ StatusesOf(statusLog'[j]) = <<"spawned", "running">>
                /\ StatusSeq(j)' = <<"spawned", "running">>
                /\ store'[j].status = "running"
                /\ jobs'[j] = NewJob(statusLog'[j][1])
                /\ ~result'.isError /\ result'.kind = "dispatched"
          /\ HandlerRan(j) =>
                /\ Len(statusLog[j]) >= 2
                /\ SubSeq(StatusesOf(statusLog[j]), 1, 2) = <<"spawned", "running">>
      ]_vars

C23_Witness ==
    \E j \in JobIds :
        /\ pc = "done" /\ result.kind = "dispatched"
        /\ StatusesOf(statusLog[j]) = <<"spawned", "running">>
        /\ store[j].status = "running"
        /\ jobs[j].active /\ ~jobs[j].settled /\ jobs[j].timer = "armed"

\* ---------------------------------------------------------------- C24
\* The timer of job j fired in this step while the job was not settled.
TimerFiredUnsettled(j) ==
    /\ jobs[j].active /\ ~jobs[j].settled
    /\ jobs[j].timer = "armed" /\ jobs'[j].timer = "fired"

\* C24: when the timer of a job that has not settled fires, SIGTERM goes
\* to the process group (target -pid) on a POSIX platform and to the
\* direct child only on win32, and then the timeout record is written,
\* with completedAt and the timeout message, whether or not sending the
\* signal failed.
C24_TimeoutKillsGroup ==
    [][\A j \in JobIds :
          TimerFiredUnsettled(j) =>
              /\ jobs'[j].signal.fn =
                    (IF platform = "win32" THEN "child.kill" ELSE "process.kill")
              /\ jobs'[j].signal.target =
                    (IF platform = "win32" THEN "child" ELSE "-pid")
              /\ jobs'[j].kills = 1
              /\ jobs'[j].settled
              /\ Len(statusLog'[j]) = Len(statusLog[j]) + 1
              /\ store'[j] = statusLog'[j][Len(statusLog'[j])]
              /\ store'[j].status = "timeout"
              /\ store'[j].completedAt # Undefined
              /\ store'[j].error = TimeoutMessage
      ]_vars

\* The signal could not be sent and the timeout record is in the store.
C24_Witness ==
    \E j \in JobIds :
        /\ jobs[j].signal.threw
        /\ jobs[j].signal.target = "-pid"
        /\ platform = "linux"
        /\ store[j].status = "timeout"

\* The same on win32, where only the child is signalled.
C24_WitnessWin32 ==
    \E j \in JobIds :
        /\ platform = "win32"
        /\ jobs[j].signal.target = "child"
        /\ store[j].status = "timeout"

\* ---------------------------------------------------------------- C25
\* Executor call i rejected in this step with `message`, sent one SIGTERM
\* and left its timer in the state `timer`.
KilledAndRejected(i, message, timer) ==
    /\ execs'[i].settled
    /\ execs'[i].timer = timer
    /\ execs'[i].kills = execs[i].kills + 1
    /\ execs'[i].outcome = Rejected(message)

\* C25: in the synchronous executor, a spawn error or a stdin error that
\* arrives while the call is unsettled disarms the timer, sends SIGTERM to
\* the child and rejects with the message of the underlying error; the
\* timer firing while the call is unsettled sends SIGTERM and rejects with
\* the timeout failure.
C25_ExecutorFailures ==
    [][\A i \in 1..Len(execs) :
          ~execs[i].settled =>
              /\ ExecError(i) => KilledAndRejected(i, SpawnMessage, "cleared")
              /\ ExecStdinError(i) => KilledAndRejected(i, StdinMessage, "cleared")
              /\ ExecTimeout(i) => KilledAndRejected(i, TimeoutMessage, "fired")
      ]_vars

\* A Gemini request whose first call failed to spawn, whose second lost its
\* stdin and whose third timed out.
C25_Witness ==
    /\ Len(execs) >= 3
    /\ execs[1].outcome = Rejected(SpawnMessage) /\ execs[1].kills = 1
    /\ execs[2].outcome = Rejected(StdinMessage) /\ execs[2].timer = "cleared"
    /\ execs[3].outcome = Rejected(TimeoutMessage) /\ execs[3].timer = "fired"

\* ---------------------------------------------------------------- C26
\* Both close handlers have run on the same exit code and the same output.
BothClosed == Len(execs) = 1 /\ execs[1].closed /\ jobs[1].closed

\* C26: supervisor and executor of one provider classify a close event
\* alike.  For every exit code, stdout and stderr, the job is written
\* completed, with a response record of the same text, exactly when the
\* executor resolves, and written failed with the same error message
\* exactly when the executor rejects.
C26_SameCloseClassification ==
    BothClosed =>
        /\ (store[1].status = "completed") = (execs[1].outcome.state = "resolved")
        /\ (store[1].status = "failed") = (execs[1].outcome.state = "rejected")
        /\ execs[1].outcome.state = "resolved" =>
              /\ Len(responses) = 1
              /\ responses[1].response = execs[1].outcome.text
              /\ responses[1].promptId = 1
        /\ execs[1].outcome.state = "rejected" =>
              /\ responses = <<>>
              /\ store[1].error = execs[1].outcome.message

\* A non-zero exit with output on stdout: both take it for a success.
C26_Witness ==
    /\ BothClosed
    /\ execs[1].exitCode = 1
    /\ execs[1].outcome.state = "resolved"
    /\ store[1].status = "completed"

\* A non-zero exit with blank stdout: both report the same failure.
C26_WitnessFailed ==
    /\ BothClosed
    /\ execs[1].outcome.state = "rejected"
    /\ store[1].status = "failed"
    /\ store[1].error.text # NoOutput

\* ---------------------------------------------------------------- C27
\* The members of a status record that never change.
FixedFields(record) ==
    <<record.provider, record.jobId, record.slug, record.pid, record.promptFile,
      record.responseFile, record.model, record.agentRole, record.spawnedAt>>

\* C27: in all the status records written for one job, provider, jobId,
\* slug, pid, promptFile, responseFile, model, agentRole and spawnedAt are
\* those of the first (spawned) record; completedAt is present exactly in
\* the records with a terminal status and error exactly in those with
\* status failed or timeout.
C27_StatusRecordFields ==
    \A j \in JobIds :
        \A n \in 1..Len(statusLog[j]) :
            LET record == statusLog[j][n]
            IN /\ statusLog[j][1].status = "spawned"
               /\ record.jobId = j
               /\ FixedFields(record) = FixedFields(statusLog[j][1])
               /\ (record.completedAt # Undefined) = (record.status \in Terminal)
               /\ (record.error # NoMessage) = (record.status \in {"failed", "timeout"})

\* A job that failed after its spawned and running records were written.
C27_Witness ==
    \E j \in JobIds :
        /\ Len(statusLog[j]) = 3
        /\ statusLog[j][3].status = "failed"
        /\ statusLog[j][3].error = ExitMessage(1, <<"k">>)
        /\ statusLog[j][3].pid = PidOf(j)

\* A job that completed: its last record has completedAt and no error.
C27_WitnessCompleted ==
    \E j \in JobIds :
        /\ Len(statusLog[j]) = 3
        /\ statusLog[j][3].status = "completed"
        /\ statusLog[j][3].completedAt = Now
        /\ statusLog[j][3].error = NoMessage

\* ---------------------------------------------------------------- C28
\* Something of job j changed in this step: its closure (latch, buffers,
\* timer), its status record or the log of its records.
Touched(j) ==
    \/ jobs'[j] # jobs[j]
    \/ store'[j] # store[j]
    \/ statusLog'[j] # statusLog[j]

\* The calls and the response records this step added.
NewCalls == SubSeq(trace', Len(trace) + 1, Len(trace'))

NewResponses == SubSeq(responses', Len(responses) + 1, Len(responses'))

\* C28: with several background jobs in flight, a step that belongs to
\* one job (its dispatch or one of its events) writes status and response
\* records of that job only and leaves the records, the latch and the
\* buffers of every other job as they were; the response it persists is
\* decoded from the stdout buffer of that job.
C28_JobsIsolated ==
    [][\A j \in JobIds :
          Touched(j) =>
              /\ \A k \in JobIds \ {j} : ~Touched(k)
              /\ \A n \in 1..Len(NewCalls) : NewCalls[n].job \in {0, j}
              /\ \A n \in 1..Len(NewResponses) :
                    /\ NewResponses[n].promptId = j
                    /\ NewResponses[n].response =
                          Decode(jobs[j].provider, jobs[j].stdout)
              /\ store'[j].jobId = j
      ]_vars

\* Job 1 completed with its own output while job 2, which has output of
\* its own too, is still running.
C28_Witness ==
    /\ jobs[1].active /\ jobs[2].active
    /\ store[1].status = "completed"
    /\ store[2].status = "running"
    /\ ~jobs[2].settled
    /\ jobs[2].stdout = <<"o">>
    /\ Len(responses) = 1 /\ responses[1].promptId = 1

\* ---------------------------------------------------------------- C29
\* What the claim allows: one executor call for Codex, and for Gemini no
\* more calls than the chain has models, which are five at most.
ClaimedAttempts ==
    IF req.provider = "codex" THEN Len(execs) = 1
    ELSE Len(execs) >= 1 /\ Len(execs) <= Len(modelsToTry) /\ Len(modelsToTry) <= 5

\* C29: every synchronous request returns in the end.  An executor call
\* whose timer fired is settled, whatever its child does, so with timers
\* that fire the handler suspended on a call is resumed and, after one
\* call for Codex and at most as many calls as the chain has models (five
\* at most) for Gemini, returns.
C29_SyncReturns ==
    /\ [](\A i \in 1..Len(execs) : execs[i].timer = "fired" => execs[i].settled)
    /\ [](pc # "idle" => ClaimedAttempts)
    /\ (pc = "await") ~> (pc = "done")

\* All five models of a chain timed out, none of the children ever exited,
\* and the handler returned.
C29_Witness ==
    /\ pc = "done"
    /\ Len(execs) = 5
    /\ \A i \in 1..5 :
          /\ execs[i].outcome = Rejected(TimeoutMessage)
          /\ ~execs[i].closed
    /\ result.isError

\* ---------------------------------------------------------------- C30
\* The operations called so far, in order.
Ops == [n \in 1..Len(trace) |-> trace[n].op]

\* The steps of the handler that make calls, in the order of the claim,
\* for a request with n context files, up to the branch.
ClaimedSteps(n) ==
    <<"detectCli", "resolveSystemPrompt">>
    \o Repeat("validateAndReadFile", n)
    \o <<"buildPromptWithSystemContext", "persistPrompt">>

\* The handler reached its branch: a process was spawned.
BranchReached == \E n \in 1..Len(trace) : trace[n].op = "spawn"

\* The tool check found no CLI.
CliFound(answer) == \E n \in 1..Len(trace) :
                        trace[n].op = "detectCli" /\ trace[n].arg = answer

\* The claim as it stands: the branch is reached only if every earlier
\* step passed, the reading of the files and the persisting of the prompt
\* among them.
C30_Original ==
    (pc # "idle" /\ BranchReached) =>
        /\ ~InvalidRole(req) /\ CliFound("available") /\ ~TooManyFiles(req)
        /\ req.nFiles > 0 => req.filesReadable
        /\ promptResult.ok

\* C30 (amended): the handler validates the role, looks for the CLI,
\* resolves the system prompt, checks the file count and reads the files,
\* assembles the prompt, persists it and branches, in that order.  A role
\* that is not valid, a CLI that is not found or a file list over the cap
\* ends the request with isError before any later step; a file that cannot
\* be read does not, and a prompt that was not persisted ends it in
\* background mode only.  For a valid role without CLI the result carries
\* the install hint and nothing was read, persisted or spawned, however
\* many files were passed.
C30_StepOrder ==
    pc # "idle" =>
        /\ IF BranchReached
           THEN /\ ~InvalidRole(req) /\ CliFound("available") /\ ~TooManyFiles(req)
                /\ SubSeq(Ops, 1, Len(ClaimedSteps(req.nFiles))) = ClaimedSteps(req.nFiles)
                /\ Ops[Len(ClaimedSteps(req.nFiles)) + 1] = "spawn"
                /\ req.background => promptResult.ok
           ELSE IsPrefix(Ops, ClaimedSteps(req.nFiles))
        /\ InvalidRole(req) => result.isError /\ Ops = <<>>
        /\ ~InvalidRole(req) => CliFound("available") \/ CliFound("unavailable")
        /\ (~InvalidRole(req) /\ CliFound("unavailable")) =>
              /\ result.isError
              /\ result.text[Len(result.text)] = "detection.installHint"
              /\ Ops = <<"detectCli">>
              /\ promptResult = NoPrompt
              /\ execs = <<>> /\ \A j \in JobIds : ~jobs[j].active
        /\ (~InvalidRole(req) /\ CliFound("available") /\ TooManyFiles(req)) =>
              /\ result.isError
              /\ Ops = <<"detectCli", "resolveSystemPrompt">>
        /\ (req.background /\ Len(Ops) = Len(ClaimedSteps(req.nFiles)) /\ ~promptResult.ok) =>
              result.isError /\ ~BranchReached

\* A valid role, no CLI and more files than the cap: the hint is returned
\* and only the tool check was made.
C30_Witness ==
    /\ pc = "done"
    /\ ~InvalidRole(req) /\ CliFound("unavailable")
    /\ req.nFiles > MAX_CONTEXT_FILES
    /\ result.isError /\ result.kind = "cliUnavailable"
    /\ Ops = <<"detectCli">>

\* ---------------------------------------------------------------- C31
\* persistResponse was called and the record could not be written.
ResponseUnwritten ==
    /\ responseStoreFails
    /\ \E n \in 1..Len(trace) : trace[n].op = "persistResponse"

\* C31: in synchronous mode a response that could not be persisted after
\* a successful execution does not fail the request: the handler returns
\* the response of the call that resolved, without isError, and that call
\* is the last one made, so no further model of the Gemini chain is tried.
C31_UnpersistedResponse ==
    \A i \in 1..Len(execs) :
        (execs[i].outcome.state = "resolved" /\ promptResult.ok /\ responseStoreFails) =>
            /\ pc = "done"
            /\ ResponseUnwritten
            /\ responses = <<>>
            /\ ~result.isError /\ result.kind = "response"
            /\ result.text = execs[i].outcome.text
            /\ i = Len(execs)

\* The second model of a Gemini chain answered, the record was not
\* written, and the models after it were not tried.
C31_Witness ==
    /\ pc = "done" /\ req.provider = "gemini"
    /\ promptResult.ok /\ ResponseUnwritten /\ responses = <<>>
    /\ Len(execs) = 2 /\ Len(modelsToTry) > 2
    /\ execs[2].outcome.state = "resolved"
    /\ ~result.isError

\* ---------------------------------------------------------------- C32
\* The executor calls whose child has not exited: no close event yet, and
\* the call did not fail to spawn it.
AliveChildren ==
    {i \in 1..Len(execs) :
        ~execs[i].closed /\ execs[i].outcome # Rejected(SpawnMessage)}

\* The claim as it stands: within one synchronous request at most one
\* child is alive at any time.
C32_Original == Cardinality(AliveChildren) <= 1

\* C32 (amended): within one synchronous request at most one executor
\* call is unsettled at any time, the last one: the child of a fallback
\* attempt is spawned only after the previous attempt settled.  The child
\* of a settled attempt has exited or has been sent SIGTERM; after a
\* timeout or a stdin error it need not have exited, so it can be alive
\* next to the child of the following attempt.
C32_OneUnsettledAttempt ==
    \A i \in 1..Len(execs) :
        /\ i < Len(execs) => execs[i].settled
        /\ execs[i].settled => execs[i].closed \/ execs[i].kills >= 1

\* The first attempt timed out and its child has not exited; the second
\* attempt is running.
C32_Witness ==
    /\ Len(execs) = 2
    /\ execs[1].outcome = Rejected(TimeoutMessage)
    /\ execs[1].kills = 1 /\ ~execs[1].closed
    /\ ~execs[2].settled /\ ~execs[2].closed

\* ---------------------------------------------------------------- C33
\* Jobs whose stored status is terminal.
TerminalJobs == {j \in JobIds : jobs[j].active /\ store[j].status \in Terminal}

\* The claim as it stands: the child of a terminal job has exited, was
\* never started (the job failed on a spawn error) or was sent SIGTERM.
C33_Original ==
    \A j \in TerminalJobs :
        \/ jobs[j].closed
        \/ store[j].error = SpawnMessage
        \/ jobs[j].kills >= 1

\* C33 (amended): the child of a completed job has exited; for a job in
\* status timeout one SIGTERM was sent, or its sending attempted, to the
\* process group or the child; a job is failed by the close handler, after
\* the child exited, or by the error or stdin-error handler, and these two
\* send no signal: the child of such a job was never sent a termination
\* signal and can still be running.
C33_TerminalJobChild ==
    \A j \in TerminalJobs :
        /\ store[j].status = "completed" => jobs[j].closed /\ jobs[j].kills = 0
        /\ store[j].status = "timeout" =>
               jobs[j].kills = 1 /\ jobs[j].signal # NoSignal
        /\ store[j].status = "failed" =>
               /\ jobs[j].kills = 0 /\ jobs[j].signal = NoSignal
               /\ jobs[j].closed \/ store[j].error \in {SpawnMessage, StdinMessage}

\* A job failed by a stdin error whose child has not exited and was not
\* signalled.
C33_Witness ==
    \E j \in TerminalJobs :
        /\ store[j].status = "failed" /\ store[j].error = StdinMessage
        /\ ~jobs[j].closed /\ jobs[j].kills = 0

\* ---------------------------------------------------------------- C34
\* No element of the list occurs at two positions.
NoRepeat(list) ==
    \A i, k \in 1..Len(list) : list[i] = list[k] => i = k

\* C34: the fallback chain of a Gemini request is not empty, starts with
\* the requested model, names no model twice and is at most one longer
\* than the canonical list; so a background request spawns for the
\* requested model only, and a synchronous request spawns at most once for
\* any model.
C34_ChainShape ==
    GeminiChainBuilt =>
        /\ Len(modelsToTry) >= 1
        /\ modelsToTry[1] = RequestedModel
        /\ NoRepeat(modelsToTry)
        /\ Len(modelsToTry) <= Len(GEMINI_MODEL_FALLBACKS) + 1
        /\ req.background =>
              /\ Spawned(0) = <<>>
              /\ \A j \in JobIds : Spawned(j) \in {<<>>, <<RequestedModel>>}
        /\ ~req.background =>
              /\ NoRepeat(Spawned(0))
              /\ \A j \in JobIds : Spawned(j) = <<>>

\* A synchronous request for the default model attempted the four models
\* of the canonical list, each once.
C34_Witness ==
    /\ GeminiChainBuilt /\ ~req.background
    /\ Len(Spawned(0)) = Len(GEMINI_MODEL_FALLBACKS)
    /\ Spawned(0)[1] = RequestedModel

\* A background request for a model outside the canonical list spawned
\* for that model only.
C34_WitnessBackground ==
    /\ GeminiChainBuilt /\ req.background
    /\ RequestedModel = "custom-model"
    /\ Len(modelsToTry) = Len(GEMINI_MODEL_FALLBACKS) + 1
    /\ \E j \in JobIds : Spawned(j) = <<RequestedModel>>

\* ---------------------------------------------------------------- C35
\* The persistResponse calls made for job j.
PersistCalls(t, j) ==
    {c \in 1..Len(t) : t[c].op = "persistResponse" /\ t[c].job = j}

\* No response record and no persistResponse call for a job that is
\* failed or timed out.
NoResponseForFailure ==
    \A j \in JobIds :
        store[j].status \in {"failed", "timeout"} =>
            ResponsesOf(j) = {} /\ PersistCalls(trace, j) = {}

\* A step that calls persistResponse for job j is the close event of j,
\* taken while the latch was not set, with an exit that classifies as a
\* success.
PersistOnlyOnClose ==
    \A j \in JobIds :
        PersistCalls(trace', j) # PersistCalls(trace, j) =>
            /\ ~jobs[j].settled /\ jobs'[j].settled
            /\ ~jobs[j].closed /\ jobs'[j].closed
            /\ CloseSucceeds(jobs'[j].exitCode, jobs[j].stdout)
            /\ store'[j].status = "completed"

\* C35: no response record is ever persisted for a background job whose
\* terminal status is failed or timeout: persistResponse is called by the
\* close handler only, while the job is unsettled and the close classified
\* as a success.
C35_NoResponseForFailedJob == []NoResponseForFailure /\ [][PersistOnlyOnClose]_vars

\* A job that failed on its exit code after its child wrote to stdout and
\* stderr, with no response record; and a job that timed out and whose
\* child then exited with code 0.
C35_Witness ==
    \E j \in JobIds :
        /\ jobs[j].active /\ jobs[j].closed
        /\ ResponsesOf(j) = {}
        /\ \/ store[j].status = "failed" /\ jobs[j].exitCode = 1
           \/ store[j].status = "timeout" /\ jobs[j].exitCode = 0

\* ---------------------------------------------------------------- C36
\* The supervisor registered an error listener on the child of job j.
ErrorListener(j) ==
    \E c \in 1..Len(trace) :
        trace[c].op = "on" /\ trace[c].arg = "error" /\ trace[c].job = j

\* C36: every child spawned by the background supervisor has an error
\* listener by the time the supervisor returns, also when it returns
\* early because no process id was obtained.
C36_ErrorListenerRegistered ==
    \A j \in JobIds : Spawned(j) # <<>> => ErrorListener(j)

\* ------------------------------------------------------- the model router
\* What the calls of the router leave alone.
programVars ==
    <<handlerVars, rawOutput, decoded, env, TIMEOUT, platform, responseStoreFails>>

\* The signals the rules read, with values on both sides of every test.
LexicalSignals ==
    [wordCount : {49, 50},
     hasArchitectureKeywords : BOOLEAN,
     hasDebuggingKeywords : BOOLEAN,
     hasSimpleKeywords : BOOLEAN,
     hasRiskKeywords : BOOLEAN,
     questionDepth : {"why", "what"}]

StructuralSignals ==
    [estimatedSubtasks : {1, 5, 6},
     crossFileDependencies : BOOLEAN,
     impactScope : {"local", "module", "system-wide"},
     domainSpecificity : {"generic", "security"},
     reversibility : {"easy", "difficult"}]

\* The signals of a call of evaluateRules.
Signals ==
    {[lexical |-> l, structural |-> t] : l \in LexicalSignals, t \in StructuralSignals}

\* The contexts evaluateRules is called with.
RuleContexts ==
    [agentType : {Undefined, "explore"},
     explicitModel : {Undefined, "opus"},
     previousFailures : {<<>>, <<1>>}]

RECURSIVE Reverse(_)
Reverse(list) ==
    IF list = <<>> THEN <<>>
    ELSE <<list[Len(list)]>> \o Reverse(SubSeq(list, 1, Len(list) - 1))

\* The rule lists evaluateRules is given: the default list, the default
\* list in the opposite order, and that list without the default rule.
RuleLists ==
    {DEFAULT_ROUTING_RULES,
     Reverse(DEFAULT_ROUTING_RULES),
     SubSeq(Reverse(DEFAULT_ROUTING_RULES), 2, Len(DEFAULT_ROUTING_RULES))}

\* evaluateRules(ctx, sig, rules) is called and returns.
EvaluateRules ==
    /\ routeCall = "none"
    /\ \E ctx \in RuleContexts, sig \in Signals :
          /\ routeCall' = "evaluateRules"
          /\ context' = ctx
          /\ signals' = sig
          /\ evaluated' = evaluateRules(ctx, sig, rules)
          /\ rules' = RulesAfterEvaluate(rules)
    /\ UNCHANGED <<mergedConfig, decision, programVars>>

RulesInit ==
    /\ HandlerInit
    /\ rawOutput = <<>>
    /\ decoded = <<>>
    /\ env = EnvUnset
    /\ TIMEOUT = EffectiveTimeout(EnvUnset)
    /\ platform = "linux"
    /\ responseStoreFails = FALSE
    /\ \E list \in RuleLists : RouterIdle(list)

RulesNext == EvaluateRules

RulesSpec == RulesInit /\ [][RulesNext]_vars

\* The largest previousFailures and maxEscalations of a call.
MaxFailures == 3

MaxEscalations == 2

\* The contexts routeTask and routeWithEscalation are called with.
RouteContexts ==
    [agentType : {Undefined, "oracle", "explore", "librarian"},
     explicitModel : {Undefined, "", "opus", "haiku", "sonnet", "inherit"},
     previousFailures : {<<>>} \cup {<<n>> : n \in 0..MaxFailures}]

\* agentOverrides: none, one for an agent the rules send to HIGH, and one
\* each for an agent the rules send to LOW and an agent without a rule.
OverrideSets ==
    {{},
     {[agent |-> "oracle", tier |-> "LOW", reason |-> "override oracle"]},
     {[agent |-> "explore", tier |-> "HIGH", reason |-> "override explore"],
      [agent |-> "librarian", tier |-> "LOW", reason |-> "override librarian"]}}

\* The merged configurations of a call.
RouteConfigs ==
    [enabled : BOOLEAN, defaultTier : Tiers, escalationEnabled : BOOLEAN,
     maxEscalations : 0..MaxEscalations, agentOverrides : OverrideSets]

\* Signals of a short, simple, easily reversible task in one file or one
\* module, security related or not: the rules give LOW, MEDIUM or HIGH.
RouteSignals ==
    {[lexical |-> l, structural |-> t] :
        l \in {x \in LexicalSignals :
                  /\ x.wordCount = 49 /\ x.questionDepth = "what"
                  /\ ~x.hasArchitectureKeywords /\ ~x.hasDebuggingKeywords
                  /\ x.hasSimpleKeywords /\ ~x.hasRiskKeywords},
        t \in {y \in StructuralSignals :
                  /\ y.estimatedSubtasks = 1 /\ ~y.crossFileDependencies
                  /\ y.impactScope \in {"local", "module"}
                  /\ y.reversibility = "easy"}}

\* routeTask(ctx, config) is called and returns.
RouteTask ==
    /\ routeCall = "none"
    /\ \E ctx \in RouteContexts, cfg \in RouteConfigs, sig \in RouteSignals :
          /\ routeCall' = "routeTask"
          /\ context' = ctx
          /\ mergedConfig' = cfg
          /\ signals' = sig
          /\ decision' = routeTask(ctx, cfg, sig)
    /\ UNCHANGED <<rules, evaluated, programVars>>

\* routeWithEscalation(ctx, config) is called and returns.
RouteWithEscalation ==
    /\ routeCall = "none"
    /\ \E ctx \in RouteContexts, cfg \in RouteConfigs, sig \in RouteSignals :
          /\ routeCall' = "routeWithEscalation"
          /\ context' = ctx
          /\ mergedConfig' = cfg
          /\ signals' = sig
          /\ decision' = routeWithEscalation(ctx, cfg, sig)
    /\ UNCHANGED <<rules, evaluated, programVars>>

RouteNext == RouteTask \/ RouteWithEscalation

RouteSpec == Init /\ [][RouteNext]_vars

\* ---------------------------------------------------------------- C37
\* The places of the given list whose rule matches the call.
Matching ==
    {i \in 1..Len(rules) : RuleCondition(rules[i], context, signals)}

\* Place i of the given list is the one the claim names: no matching rule
\* has a higher priority, and none of the same priority comes before it.
Claimed(i) ==
    /\ i \in Matching
    /\ \A k \in Matching :
          \/ rules[k].priority < rules[i].priority
          \/ rules[k].priority = rules[i].priority /\ i <= k

\* What evaluateRules returned is as the claim says.
HighestPriorityFirst ==
    routeCall = "evaluateRules" =>
        /\ Matching # {} =>
              \E i \in Matching :
                  /\ Claimed(i)
                  /\ evaluated.tier = rules[i].action.tier
                  /\ evaluated.reason = rules[i].action.reason
                  /\ evaluated.ruleName = rules[i].name
        /\ Matching = {} => evaluated.ruleName = "fallback"
        /\ rules = DEFAULT_ROUTING_RULES => evaluated.ruleName # "fallback"

\* C37: evaluateRules returns the action and the name of the matching
\* rule of highest priority, the first of the given list among matching
\* rules of that priority; the list it was given is the same after the
\* call; and with DEFAULT_ROUTING_RULES the result is never 'fallback'.
C37_HighestPriorityFirst == []HighestPriorityFirst /\ [][rules' = rules]_vars

\* The list was given in ascending order of priority, three rules of
\* priority 70 match, and the one that comes first in the given list was
\* returned, not the one the default order puts first.
C37_Witness ==
    /\ routeCall = "evaluateRules"
    /\ rules = Reverse(DEFAULT_ROUTING_RULES)
    /\ Cardinality({i \in Matching : rules[i].priority = 70}) = 3
    /\ evaluated.ruleName = "difficult-reversibility-risk"

\* No rule of the list matched.
C37_WitnessFallback ==
    routeCall = "evaluateRules" /\ evaluated.ruleName = "fallback"

\* ---------------------------------------------------------------- C38
\* The call names a model: explicitModel is given and is not the empty
\* string, which routeTask takes for no model.
ExplicitModelNamed == context.explicitModel \notin {Undefined, ""}

\* The tier the claim gives to a model name.
ClaimedModelTier ==
    IF context.explicitModel = "opus" THEN "HIGH"
    ELSE IF context.explicitModel = "haiku" THEN "LOW"
    ELSE "MEDIUM"

\* The overrides configured for the agent type of the call.
ConfiguredOverrides ==
    {o \in mergedConfig.agentOverrides : o.agent = context.agentType}

\* C38: routeTask returns the default tier when routing is disabled,
\* whatever the context; otherwise the tier of the explicit model when one
\* is named (opus HIGH, haiku LOW, any other name MEDIUM), whatever the
\* agent type, the signals and the previous failures; otherwise the tier
\* of the override configured for the agent type, whatever the rules
\* give; and the tier is always LOW, MEDIUM or HIGH, never EXPLICIT.
C38_RoutePrecedence ==
    routeCall = "routeTask" =>
        /\ decision.tier \in Tiers
        /\ ~decision.escalated
        /\ ~mergedConfig.enabled => decision.tier = mergedConfig.defaultTier
        /\ (mergedConfig.enabled /\ ExplicitModelNamed) =>
              decision.tier = ClaimedModelTier
        /\ (mergedConfig.enabled /\ ~ExplicitModelNamed) =>
              \A o \in ConfiguredOverrides : decision.tier = o.tier

\* Routing is enabled and the call names haiku for an agent that has an
\* override to HIGH, after two failures: the tier is LOW.
C38_Witness ==
    /\ routeCall = "routeTask"
    /\ mergedConfig.enabled
    /\ context.explicitModel = "haiku"
    /\ context.previousFailures = <<2>>
    /\ \E o \in ConfiguredOverrides : o.tier = "HIGH"
    /\ decision.tier = "LOW"

\* An override to LOW wins over the rule that sends the agent to HIGH.
C38_WitnessOverride ==
    /\ routeCall = "routeTask"
    /\ mergedConfig.enabled /\ ~ExplicitModelNamed
    /\ context.agentType = "oracle"
    /\ \E o \in ConfiguredOverrides : o.tier = "LOW"
    /\ decision.tier = "LOW"

\* The explicit model is the empty string: the rule for explicit models
\* matches and routeTask returns MEDIUM in place of EXPLICIT.
C38_WitnessExplicitRule ==
    /\ routeCall = "routeTask"
    /\ context.explicitModel = ""
    /\ decision.reasons = <<Reason("Unexpected EXPLICIT tier", "", "", 0)>>
    /\ decision.tier = "MEDIUM"

\* ---------------------------------------------------------------- C39
\* The number of previous failures of the call, 0 when none is given.
Failures == Coalesce(context.previousFailures, 0)

\* What routeTask returns for the arguments of the call.
Initial == routeTask(context, mergedConfig, signals)

\* LOW < MEDIUM < HIGH
TierRank(tier) ==
    IF tier = "LOW" THEN 1 ELSE IF tier = "MEDIUM" THEN 2 ELSE 3

\* The tier one step above, HIGH above HIGH.
StepUp(tier) ==
    IF tier = "LOW" THEN "MEDIUM" ELSE "HIGH"

\* The tier n steps above.
RECURSIVE StepsUp(_, _)
StepsUp(tier, n) == IF n = 0 THEN tier ELSE StepsUp(StepUp(tier), n - 1)

\* The call is one of routeWithEscalation with failures to escalate on.
Escalating ==
    /\ routeCall = "routeWithEscalation"
    /\ Failures # 0 /\ mergedConfig.escalationEnabled

\* The claim as it stands: the tier is the one reached by one escalation
\* step per previous failure, and it is HIGH when the failures exceed
\* maxEscalations.
C39_Original ==
    Escalating =>
        /\ decision.tier = StepsUp(Initial.tier, Failures)
        /\ Failures > mergedConfig.maxEscalations => decision.tier = "HIGH"

\* C39 (amended): routeWithEscalation returns routeTask's decision when
\* previousFailures is 0 or escalation is disabled; otherwise its tier is
\* never lower than routeTask's: it is HIGH whenever previousFailures
\* exceeds maxEscalations, without counting steps, and else the tier
\* reached by one escalation step per previous failure, HIGH at most.
C39_EscalatedTier ==
    routeCall = "routeWithEscalation" =>
        IF ~Escalating
        THEN decision = Initial
        ELSE /\ TierRank(decision.tier) >= TierRank(Initial.tier)
             /\ IF Failures > mergedConfig.maxEscalations
                THEN decision.tier = "HIGH"
                ELSE decision.tier = StepsUp(Initial.tier, Failures)

\* One failure with maxEscalations 0 takes a LOW decision straight to HIGH.
C39_Witness ==
    /\ Escalating
    /\ Failures = 1 /\ mergedConfig.maxEscalations = 0
    /\ Initial.tier = "LOW"
    /\ decision.tier = "HIGH"

\* One failure within maxEscalations takes a LOW decision to MEDIUM.
C39_WitnessStep ==
    /\ Escalating
    /\ Failures = 1 /\ mergedConfig.maxEscalations >= 1
    /\ Initial.tier = "LOW"
    /\ decision.tier = "MEDIUM"

\* ---------------------------------------------------------------- C40
\* C40: a decision of routeWithEscalation is marked escalated exactly
\* when its tier differs from the tier routeTask chose, and then
\* originalTier is routeTask's tier; a decision with routeTask's tier is
\* never marked escalated.
C40_EscalatedIffTierDiffers ==
    routeCall = "routeWithEscalation" =>
        /\ decision.escalated <=> decision.tier # Initial.tier
        /\ decision.escalated => decision.originalTier = Initial.tier

====
